---- MODULE Spec2Model ----
(***************************************************************************)
(* Lobby -> Ship -> Minigame orchestration of the game server (package     *)
(* core).  One step of the model is one dispatch turn of                   *)
(* Hub.runMainGameLoop (an inbound message, a kill notice or a scheduled   *)
(* event function), or one step of a timer goroutine / of the wall clock.  *)
(*                                                                         *)
(* Abstractions:                                                           *)
(*  - a Player object is identified with the Client that owns it;          *)
(*  - PositionManager.Map is not part of the state: doSetPosition accepts  *)
(*    any position from a client at any time, so the position a player has *)
(*    when it sends ship_flag_activate is an input of that turn;           *)
(*  - a timer's quit channel and End are kept as the boolean running       *)
(*    (quit is not nil and End has not passed); activation start times are *)
(*    a per-ship logical clock;                                            *)
(*  - the messages a turn sends are the bag sent of the handler's result   *)
(*    and are not kept between turns;                                      *)
(*  - the server runs without --record (Ship.Recorder is nil);             *)
(*  - a minigame implementation is an environment that may call            *)
(*    MinigameContext.End with any result its constructors can build.      *)
(*                                                                         *)
(* Specifications:                                                         *)
(*  - Spec: the dispatch turns and the timers of sessions of NumJoiners    *)
(*    clients;                                                             *)
(*  - CrewSpec: the dispatch turns of one session of NumClients players;   *)
(*  - TimerSpec: the main loop and the goroutines of one FunctionTimer,    *)
(*    step by step;                                                        *)
(*  - OutSpec: the main loop, hub.out and the outbound writer, step by     *)
(*    step.                                                                *)
(***************************************************************************)
EXTENDS Integers, Sequences, FiniteSets, Bags, TLC

\* ------------------------------------------------------------------ bounds
NumClients == 4
NumJoiners == 2
NumLobbies == 2
NumCodes == 1
MaxSessions == 1
MaxPlayed == 1
MaxEvents == 1

\* ------------------------------------------------------- program constants
playerFlagReach == 50
MaxLobbyPlayers == 5
FullLobby == 6
AllowSmallerLobbies == TRUE

Clients == 1..NumClients
Lobbies == 1..NumLobbies
LobbyCodes == 0..(NumCodes - 1)
ShipIds == 1..MaxSessions
TeamIdx == {0, 1}

\* Absent values (nil pointers, missing map entries).
NoPlayer == [none |-> "player"]
NoShip == [none |-> "ship"]
NoActivation == [none |-> "activation"]
NoTeam == [lobby |-> 0, index |-> -1]
NoLobby == 0
NoCode == -1
NoOwner == -1
NoScore == -1
NoFlag == "NoFlag"
NotHalted == "running"
NilActivity == [kind |-> "nil"]
NoConn == [none |-> "conn"]
NoCodec == [none |-> "codec"]
NoGames == [none |-> "minigames"]

\* The flags of Ship.createFlags that the model places (four of the nine):
\* two single-player flags and two 1v1 flags.
Flags == {"flag2", "shush", "blah", "dmspt"}

MinigamePrototype(f) ==
    CASE f = "flag2" -> [Name |-> "card_match_sp", PlayerCount |-> 1, Worth |-> 1]
      [] f = "shush" -> [Name |-> "fb_sp",         PlayerCount |-> 1, Worth |-> 1]
      [] f = "blah"  -> [Name |-> "rps_1v1",       PlayerCount |-> 2, Worth |-> 2]
      [] f = "dmspt" -> [Name |-> "shooter_1v1",   PlayerCount |-> 2, Worth |-> 2]

FlagPos(f) ==
    CASE f = "flag2" -> [X |-> 192, Y |-> 208]
      [] f = "shush" -> [X |-> 192, Y |-> 0]
      [] f = "blah"  -> [X |-> 0,   Y |-> 256]
      [] f = "dmspt" -> [X |-> 0,   Y |-> -256]

TeamSize(f) == MinigamePrototype(f).PlayerCount \div 2

\* IndividualWorth that splits the worth between all the participants.
IndividualWorth_perParticipant(f) ==
    MinigamePrototype(f).Worth \div MinigamePrototype(f).PlayerCount

IndividualWorth(f) ==
    IF MinigamePrototype(f).PlayerCount = 1
    THEN MinigamePrototype(f).Worth
    ELSE MinigamePrototype(f).Worth \div TeamSize(f)

VARIABLES
    activities,    \* LobbyManager.activities: lobby code -> lobby (activity) or NoLobby
    lobbies,       \* lobby object -> [ID, Teams], ID = NoCode while the object is unused
    readyPlayers,  \* LobbyActivity.readyPlayers of each lobby's activity
    players,       \* Client.Player: NoPlayer or [Team, Activity]
    ships,         \* Ship objects by creation number, NoShip before creation
    events,        \* Hub.event: scheduled event functions not yet run
    halted,        \* NotHalted, or why the main loop stopped (panic / blocked)
    loop,          \* the goroutine of Hub.runMainGameLoop: [pc, item]
    ftimer,        \* one FunctionTimer its owner holds, with the timer's goroutines
    calls,         \* the handlers and timer functions being executed: [by, what]
    out,           \* Hub.out: how many outbound messages are queued
    kill,          \* Hub.kill: how many clients are queued to be killed
    writer,        \* the goroutine of Hub.runOutboundLoop: where it is
    conn,          \* the client killClient is killing: [client, hadPlayer, closed, bye]
    codec,         \* one Message on its way through Encode and ParseMessage
    minigames      \* the ScoreStores and states of the minigames being played

\* The state the turns of the main loop read and write, and the state of the
\* goroutines and channels around it.
gameVars == <<activities, lobbies, readyPlayers, players, ships, halted>>

hubVars == <<loop, ftimer, calls, out, kill, writer, conn, codec, minigames>>

vars == <<activities, lobbies, readyPlayers, players, ships, events, halted,
          loop, ftimer, calls, out, kill, writer, conn, codec, minigames>>

\* The program state at the start of a turn of the main loop.  A handler maps
\* it to the state at the end of the turn; sent is the bag of the messages the
\* turn has enqueued with Client.Send so far.
Now ==
    [activities |-> activities, lobbies |-> lobbies, readyPlayers |-> readyPlayers,
     players |-> players, ships |-> ships, events |-> events, sent |-> EmptyBag,
     halted |-> halted]

\* ----------------------------------------------------------------- helpers
\* An outbound message: recipient, type and the payload fields the model keeps.
Msg(c, type) ==
    [to |-> c, type |-> type, who |-> 0, flag |-> NoFlag, team |-> NoOwner,
     team_scores |-> <<>>, individual_scores |-> [p \in Clients |-> NoScore]]

\* Client.Send: enqueue one message for the client.
SendMsg(w, m) == [w EXCEPT !.sent = @ (+) SetToBag({m})]

Send(w, c, type) == SendMsg(w, Msg(c, type))

SendFlag(w, c, type, f) == SendMsg(w, [Msg(c, type) EXCEPT !.flag = f])

\* A broadcast loop: one Client.Send of the same message per player of cs.
SendAll(w, cs, m) ==
    [w EXCEPT !.sent = @ (+) SetToBag({[m EXCEPT !.to = c] : c \in cs})]

\* Logger.Panic: the main loop goroutine dies.
Panic(w, reason) == [w EXCEPT !.halted = reason]

\* A channel send that no goroutine will ever receive: the main loop hangs.
Block(w, where) == [w EXCEPT !.halted = where]

Ok(w) == w.halted = NotHalted

\* ------------------------------------------------------------ Lobby / Team
LobbyPlayers(w, L) == w.lobbies[L].Teams[0] \cup w.lobbies[L].Teams[1]

PlayerCount(w, L) ==
    Cardinality(w.lobbies[L].Teams[0]) + Cardinality(w.lobbies[L].Teams[1])

\* Player.Lobby()
PlayerLobby(w, c) == w.players[c].Team.lobby

\* Team.AddPlayer
TeamAddPlayer(w, L, i, c) ==
    IF ~Ok(w) THEN w
    ELSE IF w.players[c].Team # NoTeam THEN Panic(w, "panic: player is already in a team")
    ELSE [w EXCEPT !.lobbies[L].Teams[i] = @ \cup {c},
                   !.players[c].Team = [lobby |-> L, index |-> i]]

\* Team.RemovePlayer that leaves the player in the member set.
TeamRemovePlayer_keepMember(w, L, i, c) ==
    IF ~Ok(w) THEN w
    ELSE IF w.players[c].Team # [lobby |-> L, index |-> i]
    THEN Panic(w, "panic: cannot remove a player from a team they are not a member of")
    ELSE [w EXCEPT !.players[c].Team = NoTeam]

\* Team.RemovePlayer
TeamRemovePlayer(w, L, i, c) ==
    IF ~Ok(w) THEN w
    ELSE IF w.players[c].Team # [lobby |-> L, index |-> i]
    THEN Panic(w, "panic: cannot remove a player from a team they are not a member of")
    ELSE [w EXCEPT !.lobbies[L].Teams[i] = @ \ {c},
                   !.players[c].Team = NoTeam]

\* Lobby.IsReady
IsReady(w, L) ==
    LET n0 == Cardinality(w.lobbies[L].Teams[0])
        n1 == Cardinality(w.lobbies[L].Teams[1])
    IN IF AllowSmallerLobbies THEN n0 > 0 /\ n0 = n1 ELSE n0 = 3 /\ n1 = 3

\* LobbyManager.forget: delete(mgr.activities, lobby.ID)
forget(w, L) == [w EXCEPT !.activities[w.lobbies[L].ID] = NoLobby]

\* Lobby.AddClient
AddClient(w, L, c) ==
    IF ~Ok(w) THEN w
    ELSE IF w.players[c] # NoPlayer THEN Panic(w, "panic: client already has a player")
    ELSE LET w1 == [w EXCEPT !.players[c] = [Team |-> NoTeam, Activity |-> NilActivity]]
             i  == IF Cardinality(w.lobbies[L].Teams[0]) <= Cardinality(w.lobbies[L].Teams[1])
                   THEN 0 ELSE 1
         IN TeamAddPlayer(w1, L, i, c)

\* Lobby.RemovePlayer
LobbyRemovePlayer(w, L, c) ==
    IF ~Ok(w) THEN w
    ELSE IF PlayerLobby(w, c) # L THEN Panic(w, "panic: player was not in this lobby")
    ELSE LET w1 == TeamRemovePlayer(w, L, w.players[c].Team.index, c)
             w2 == [w1 EXCEPT !.players[c] = NoPlayer]
         IN IF ~Ok(w1) THEN w1
            ELSE IF PlayerCount(w2, L) = 0 THEN forget(w2, L) ELSE w2

\* ----------------------------------------------------------- LobbyActivity
LobbyAct(L) == [kind |-> "lobby", lobby |-> L]

\* Player.ForAllLobbyPeers: the other players of the player's own lobby.
LobbyPeers(w, c) == LobbyPlayers(w, PlayerLobby(w, c)) \ {c}

\* LobbyActivity.notifyPlayerJoin
notifyPlayerJoin(w, c) ==
    SendAll(Send(w, c, "lobby_welcome"), LobbyPeers(w, c),
            [Msg(0, "lobby_peer_joined") EXCEPT !.who = c])

\* LobbyActivity.HandleJoinRequest
HandleJoinRequest(w, A, c) ==
    IF ~Ok(w) THEN w
    ELSE IF w.players[c] # NoPlayer THEN Send(w, c, "client_already_in_lobby_error")
    ELSE IF PlayerCount(w, A) > MaxLobbyPlayers THEN Send(w, c, "lobby_full")
    ELSE LET w1 == AddClient(w, A, c)
             w2 == [w1 EXCEPT !.players[c].Activity = LobbyAct(A)]
         IN IF ~Ok(w1) THEN w1 ELSE notifyPlayerJoin(w2, c)

\* Lobby objects that nothing refers to any more (or that were never used).
FreeLobbies(w) ==
    {L \in Lobbies :
        /\ LobbyPlayers(w, L) = {}
        /\ \A code \in LobbyCodes : w.activities[code] # L
        /\ \A c \in Clients : w.players[c] # NoPlayer => w.players[c].Activity # LobbyAct(L)
        /\ \A s \in ShipIds : w.ships[s] # NoShip => w.ships[s].lobby # L}

\* LobbyManager.createLobby, with the code randomLobbyCode drew.
createLobby(w, L, code) ==
    [w EXCEPT !.lobbies[L] = [ID |-> code, Teams |-> [i \in TeamIdx |-> {}]],
              !.readyPlayers[L] = {},
              !.activities[code] = L]

\* LobbyManager.HandleLobbyCreate
HandleLobbyCreate(w, c, L, code) == HandleJoinRequest(createLobby(w, L, code), L, c)

\* LobbyManager.GetActivity
GetActivity(w, code) == w.activities[code]

\* Client.doLobbyJoin.  id is the lobby_id field, or NoCode when the field is
\* missing or not a string (the handler then returns an error and no reply).
doLobbyJoin(w, c, id) ==
    IF id = NoCode THEN w
    ELSE IF GetActivity(w, id) = NoLobby THEN Send(w, c, "lobby_not_found")
    ELSE HandleJoinRequest(w, GetActivity(w, id), c)

\* Player.SwitchTeam
SwitchTeam(w, c, L, i) ==
    IF ~Ok(w) THEN w
    ELSE IF w.players[c].Activity.kind # "lobby"
    THEN Panic(w, "panic: can't change team when not in lobby activity")
    ELSE TeamAddPlayer(
            TeamRemovePlayer(w, w.players[c].Team.lobby, w.players[c].Team.index, c),
            L, i, c)

\* LobbyActivity.doTeamChange.  team is the parsed field, or NoOwner when the
\* field is missing, not an integer or neither 0 nor 1.
doTeamChange(w, A, c, team) ==
    IF team \notin TeamIdx THEN Send(w, c, "lobby_team_change_format_error")
    ELSE LET w1 == SwitchTeam(w, c, A, team)
             w2 == [w1 EXCEPT !.readyPlayers[A] = {}]
         IN IF ~Ok(w1) THEN w1
            ELSE SendAll(w2, LobbyPeers(w2, c),
                         [Msg(0, "lobby_peer_team_change") EXCEPT !.who = c, !.team = team])

\* LobbyActivity.doBye that leaves the player in the ready set.
doBye_keepReady(w, A, c) ==
    LET w1 == LobbyRemovePlayer(w, A, c)
    IN IF ~Ok(w1) THEN w1
       ELSE SendAll(w1, LobbyPlayers(w1, A), [Msg(0, "lobby_peer_left") EXCEPT !.who = c])

\* LobbyActivity.doBye
doBye(w, A, c) ==
    LET w1 == LobbyRemovePlayer(w, A, c)
        w2 == [w1 EXCEPT !.readyPlayers[A] = @ \ {c}]
    IN IF ~Ok(w1) THEN w1
       ELSE SendAll(w2, LobbyPlayers(w2, A), [Msg(0, "lobby_peer_left") EXCEPT !.who = c])

\* LobbyActivity.doUnready
doUnready(w, A, c) ==
    SendAll([w EXCEPT !.readyPlayers[A] = @ \ {c}], LobbyPeers(w, c),
            [Msg(0, "lobby_peer_ready_change") EXCEPT !.who = c])

\* ----------------------------------------------------------- FunctionTimer
\* The FunctionTimer value its owner holds, and the timer's goroutine.
\*   running: quit is not nil and time.Now() is not after End;
\*   live:    the goroutine is still in its select loop.
ExpiredTimer == [running |-> FALSE, live |-> FALSE]

TickingTimer == [running |-> TRUE, live |-> TRUE]

\* FunctionTimer.HasEnded
HasEnded(t) == ~t.running

\* FunctionTimer.StopWith(nil): the goroutine receives from quit and returns.
\* The receiver is a value, so the assignment timer.quit = nil is made to a
\* copy and the owner's field keeps its channel.
Stop(t) == IF HasEnded(t) THEN t ELSE [t EXCEPT !.live = FALSE]

\* The send on quit finds no receiver: the goroutine has already returned.
StopBlocks(t) == ~HasEnded(t) /\ ~t.live

\* A FunctionTimer together with its goroutines, step by step.
\*   ticker:  the goroutine with the select: "select", in s.Add(fn) ("addFn"),
\*            in s.Add of the end function ("addEnd"), or returned ("done");
\*   sleeper: TickingTimer's second goroutine: in time.Sleep ("sleep"), at
\*            its send quit <- onNormalEnd ("send"), or returned ("done");
\*   stopped: a call of StopWith has handed its function to the goroutine.
NoTimer ==
    [kind |-> "none", running |-> FALSE, live |-> FALSE,
     ticker |-> "done", sleeper |-> "done", stopped |-> FALSE]

\* TickingTimer (kind "ticking") and SingleTimer (kind "single").
NewTimer(kind) ==
    [kind |-> kind, running |-> TRUE, live |-> TRUE,
     ticker |-> "select", sleeper |-> IF kind = "ticking" THEN "sleep" ELSE "done",
     stopped |-> FALSE]

\* FunctionTimer.WasStopped, of the timer value the owner holds: quit is nil
\* only in the value ExpiredTimer() returned, since StopWith assigns nil to
\* the quit of its own copy.
WasStopped(t) == t.kind = "none"

\* FunctionTimer.TimeLeft, of the timer value the owner holds: zero, or the
\* positive time to End (1).
TimeLeft(t) ==
    IF t.kind = "none" THEN 0
    ELSE IF ~t.running THEN 0
    ELSE 1

\* ------------------------------------------------------------------- Ship
ShipAct(s) == [kind |-> "ship", ship |-> s]

MinigameAct(s, f) == [kind |-> "minigame", ship |-> s, flag |-> f]

\* All the orders in which a range loop may visit the elements of S.
Orderings(S) ==
    {o \in [1..Cardinality(S) -> S] : \A i, j \in 1..Cardinality(S) : o[i] = o[j] => i = j}

FlagOrders == Orderings(Flags)

\* Position.DistSq
DistSq(p, q) == (p.X - q.X) * (p.X - q.X) + (p.Y - q.Y) * (p.Y - q.Y)

\* Ship.findNearestFlag, on the position the player has in pm.Map.
findNearestFlag(pos) ==
    LET inReach == {f \in Flags : DistSq(pos, FlagPos(f)) <= playerFlagReach * playerFlagReach}
        nearest == {f \in inReach : \A g \in inReach : DistSq(pos, FlagPos(f)) <= DistSq(pos, FlagPos(g))}
    IN IF nearest = {} THEN NoFlag ELSE CHOOSE f \in nearest : TRUE

\* Ship.ForAllShipPlayers
ShipPlayers(w, s) ==
    {p \in LobbyPlayers(w, w.ships[s].lobby) : w.players[p].Activity = ShipAct(s)}

\* MinigameContext.ForAllPlayers
CtxPlayers(w, s, f) ==
    {p \in LobbyPlayers(w, w.ships[s].lobby) : w.players[p].Activity = MinigameAct(s, f)}

\* Player.Team of a (possibly unlinked) player, as a team index of the ship's lobby.
TeamOf(w, p) == IF w.players[p] = NoPlayer THEN NoOwner ELSE w.players[p].Team.index

\* flag.isActivated
isActivated(fl) == fl.activation # NoActivation

\* flag.needsPlayer that finds room for everyone.
needsPlayer_always(w, fl, f, p) == TRUE

\* flag.needsPlayer (callers only pass activated flags)
needsPlayer(w, fl, f, p) ==
    Cardinality({pl \in fl.activation.lockedPlayers : TeamOf(w, pl) = TeamOf(w, p)}) < TeamSize(f)

\* flag.hasAllPlayers
hasAllPlayers(fl, f) ==
    Cardinality(fl.activation.lockedPlayers) = MinigamePrototype(f).PlayerCount

\* flagManager.flagForPlayer
flagForPlayer(sh, p) ==
    LET fs == {f \in Flags : isActivated(sh.flags[f]) /\ p \in sh.flags[f].activation.lockedPlayers}
    IN IF fs = {} THEN NoFlag ELSE CHOOSE f \in fs : TRUE

RECURSIVE oldestLoop(_, _, _, _, _)
oldestLoop(w, sh, p, order, oldest) ==
    IF order = <<>> THEN oldest
    ELSE LET f  == order[1]
             fl == sh.flags[f]
             nx == IF ~isActivated(fl) THEN oldest
                   ELSE IF /\ \/ oldest = NoFlag
                              \/ sh.flags[oldest].activation.startTime > fl.activation.startTime
                           /\ needsPlayer(w, fl, f, p)
                        THEN f ELSE oldest
         IN oldestLoop(w, sh, p, Tail(order), nx)

\* flagManager.oldestFlagNeedingPlayer that returns any flag needing the player.
oldestFlagNeedingPlayer_anyNeedy(w, sh, p) ==
    LET needy == {f \in Flags : isActivated(sh.flags[f]) /\ needsPlayer(w, sh.flags[f], f, p)}
    IN IF needy = {} THEN {NoFlag} ELSE needy

\* flagManager.oldestFlagNeedingPlayer: the results over every map iteration order.
oldestFlagNeedingPlayer(w, sh, p) ==
    {oldestLoop(w, sh, p, order, NoFlag) : order \in FlagOrders}

\* flagManager.areAnyMinigamesOngoing
areAnyMinigamesOngoing(sh) == \E f \in Flags : sh.flags[f].minigame

RECURSIVE SumWorth(_)
SumWorth(fs) ==
    IF fs = {} THEN 0
    ELSE LET f == CHOOSE x \in fs : TRUE IN MinigamePrototype(f).Worth + SumWorth(fs \ {f})

\* flagManager.teamScores that counts an unowned flag for the second team.
teamScores_countUnowned(sh) ==
    <<SumWorth({f \in Flags : sh.flags[f].owner = 0}),
      SumWorth({f \in Flags : sh.flags[f].owner # 0})>>

\* flagManager.teamScores
teamScores(sh) ==
    <<SumWorth({f \in Flags : sh.flags[f].owner = 0}),
      SumWorth({f \in Flags : sh.flags[f].owner # NoOwner /\ sh.flags[f].owner # 0})>>

\* flagManager.clearForEndgame
clearForEndgame(w, s) ==
    IF ~Ok(w) THEN w
    ELSE IF \E f \in Flags : StopBlocks(w.ships[s].flags[f].cooldown)
    THEN Block(w, "blocked: flag.cooldown.Stop")
    ELSE [w EXCEPT !.ships[s].flags =
            [f \in Flags |-> [@[f] EXCEPT !.activation = NoActivation,
                                          !.cooldown = Stop(@)]]]

\* Ship.notifyPeerLeft
notifyPeerLeft(w, s, name) ==
    SendAll(w, LobbyPlayers(w, w.ships[s].lobby), [Msg(0, "ship_peer_left") EXCEPT !.who = name])

\* Ship.end
end(w, s) ==
    IF ~Ok(w) THEN w
    ELSE LET sh == w.ships[s]
             L == sh.lobby
             w1 == [w EXCEPT !.ships[s].ended = TRUE]
             endMsg == [Msg(0, "ship_game_end") EXCEPT
                            !.individual_scores = sh.individualScores,
                            !.team_scores = teamScores(sh)]
             lobbyAct == GetActivity(w, w.lobbies[L].ID)
         IN IF PlayerCount(w, L) = 0 THEN w1
            ELSE IF lobbyAct = NoLobby
            THEN Panic(w1, "panic: missing activity for non-empty lobby")
            ELSE SendAll([w1 EXCEPT !.players =
                            [p \in Clients |->
                                IF p \in LobbyPlayers(w, L)
                                THEN [@[p] EXCEPT !.Activity = LobbyAct(lobbyAct)]
                                ELSE @[p]]],
                         LobbyPlayers(w, L), endMsg)

\* Ship.tryEnd without its early return and sanity check.
tryEnd_unconditional(w, s) ==
    IF ~Ok(w) THEN w ELSE end(w, s)

\* Ship.tryEnd
tryEnd(w, s) ==
    IF ~Ok(w) THEN w
    ELSE IF areAnyMinigamesOngoing(w.ships[s]) THEN w
    ELSE IF \E p \in LobbyPlayers(w, w.ships[s].lobby) : w.players[p].Activity # ShipAct(s)
    THEN Panic(w, "panic: found a player outside of the ship, but there are no minigames ongoing")
    ELSE end(w, s)

\* Ship.enterEndgame that notifies only the players in the ship activity.
enterEndgame_notifyShipOnly(w, s) ==
    IF ~Ok(w) THEN w
    ELSE IF StopBlocks(w.ships[s].timer) THEN Block(w, "blocked: ship.timer.Stop")
    ELSE LET w1 == [w EXCEPT !.ships[s].isEndgame = TRUE,
                             !.ships[s].timer = Stop(@)]
             w2 == clearForEndgame(w1, s)
             w3 == SendAll(w2, ShipPlayers(w2, s), Msg(0, "ship_endgame"))
         IN IF ~Ok(w2) THEN w2 ELSE tryEnd(w3, s)

\* Ship.enterEndgame
enterEndgame(w, s) ==
    IF ~Ok(w) THEN w
    ELSE IF StopBlocks(w.ships[s].timer) THEN Block(w, "blocked: ship.timer.Stop")
    ELSE LET w1 == [w EXCEPT !.ships[s].isEndgame = TRUE,
                             !.ships[s].timer = Stop(@)]
             w2 == clearForEndgame(w1, s)
             w3 == SendAll(w2, LobbyPlayers(w2, w2.ships[s].lobby), Msg(0, "ship_endgame"))
         IN IF ~Ok(w2) THEN w2 ELSE tryEnd(w3, s)

\* Ship.tryEnterEndgame that enters endgame whatever the state of the ship.
tryEnterEndgame_alwaysEnter(w, s) ==
    IF ~Ok(w) THEN w ELSE enterEndgame(w, s)

\* Ship.tryEnterEndgame
tryEnterEndgame(w, s) ==
    IF ~Ok(w) THEN w
    ELSE IF w.ships[s].isEndgame THEN tryEnd(w, s) ELSE enterEndgame(w, s)

\* Ship.triggerEndgame.  nameOfLeaver is 0 for nil.
triggerEndgame(w, s, nameOfLeaver) ==
    IF ~Ok(w) THEN w
    ELSE tryEnterEndgame(IF nameOfLeaver # 0 THEN notifyPeerLeft(w, s, nameOfLeaver) ELSE w, s)

\* Ship.removePlayer that keeps the player's position and score.
removePlayer_keepEntries(w, s, player) ==
    IF ~Ok(w) THEN w
    ELSE IF w.players[player].Activity # ShipAct(s)
    THEN Panic(w, "panic: players can only be removed from the ship activity")
    ELSE LET w1 == [w EXCEPT !.players[player].Activity = NilActivity]
         IN triggerEndgame(LobbyRemovePlayer(w1, w.ships[s].lobby, player), s, player)

\* Ship.removePlayer.  pm.Map has the keys of individualScores: both get an
\* entry for every member in NewShip and Ship.Start, and lose it here.
removePlayer(w, s, player) ==
    IF ~Ok(w) THEN w
    ELSE IF w.players[player].Activity # ShipAct(s)
    THEN Panic(w, "panic: players can only be removed from the ship activity")
    ELSE LET w1 == [w EXCEPT !.ships[s].individualScores[player] = NoScore,
                             !.players[player].Activity = NilActivity]
         IN triggerEndgame(LobbyRemovePlayer(w1, w.ships[s].lobby, player), s, player)

\* Ship.addPlayerToFlag
addPlayerToFlag(w, s, f, p) ==
    IF ~Ok(w) THEN w
    ELSE IF ~isActivated(w.ships[s].flags[f])
    THEN Panic(w, "panic: cannot add player to inactive flag")
    ELSE LET w1 == [w EXCEPT !.ships[s].flags[f].activation.lockedPlayers = @ \cup {p}]
             w2 == SendFlag(w1, p, "ship_player_lock_set", f)
         IN SendAll(w2, ShipPlayers(w2, s) \ {p},
                    [Msg(0, "ship_peer_lock_set") EXCEPT !.who = p, !.flag = f])

\* Ship.notifyMinigameStart
notifyMinigameStart(w, s, f) ==
    LET locked == w.ships[s].flags[f].activation.lockedPlayers
        w1 == SendAll(w, locked, [Msg(0, "ship_minigame_join") EXCEPT !.flag = f])
        peerMsgs == {[Msg(q, "ship_peer_minigame_join") EXCEPT !.who = mp, !.flag = f] :
                        q \in ShipPlayers(w, s) \ locked, mp \in locked}
    IN [w1 EXCEPT !.sent = @ (+) SetToBag(peerMsgs)]

\* Ship.startMinigameForFlag that leaves the flag's activation in place.
startMinigameForFlag_keepActivation(w, s, f) ==
    IF ~Ok(w) THEN w
    ELSE LET locked == w.ships[s].flags[f].activation.lockedPlayers
             w1 == notifyMinigameStart(w, s, f)
         IN [w1 EXCEPT !.ships[s].flags[f].minigame = TRUE,
                       !.players = [p \in Clients |->
                                       IF p \in locked
                                       THEN [@[p] EXCEPT !.Activity = MinigameAct(s, f)]
                                       ELSE @[p]]]

\* Ship.startMinigameForFlag (NewMinigameContext, MinigameContext.Start)
startMinigameForFlag(w, s, f) ==
    IF ~Ok(w) THEN w
    ELSE LET locked == w.ships[s].flags[f].activation.lockedPlayers
             w1 == notifyMinigameStart(w, s, f)
         IN [w1 EXCEPT !.ships[s].flags[f].minigame = TRUE,
                       !.ships[s].flags[f].activation = NoActivation,
                       !.players = [p \in Clients |->
                                       IF p \in locked
                                       THEN [@[p] EXCEPT !.Activity = MinigameAct(s, f)]
                                       ELSE @[p]]]

\* Ship.findEligiblePlayersForFlags that finds nobody.
findEligiblePlayersForFlags_nobody(w, s) == {[f \in Flags |-> {}]}

\* Ship.findEligiblePlayersForFlags: every map flag -> eligible players it can return.
findEligiblePlayersForFlags(w, s) ==
    LET sh == w.ships[s]
        cand == {p \in ShipPlayers(w, s) : flagForPlayer(sh, p) = NoFlag}
        oldest == UNION {{<<p, f>> : f \in oldestFlagNeedingPlayer(w, sh, p)} : p \in cand}
        choices == {ch \in [cand -> Flags \cup {NoFlag}] :
                        \A p \in cand : <<p, ch[p]>> \in oldest}
    IN {[f \in Flags |-> {p \in cand : ch[p] = f}] : ch \in choices}

\* The inner loop of Ship.addPlayersToFlags for one flag: a random eligible
\* player is locked, then the player and everyone the flag no longer needs is
\* deleted from the slice.
RECURSIVE lockLoop(_, _, _, _)
lockLoop(w, s, f, ps) ==
    IF ps = {} \/ ~Ok(w) THEN {w}
    ELSE UNION {LET w1 == addPlayerToFlag(w, s, f, p)
                IN IF ~Ok(w1) THEN {w1}
                   ELSE lockLoop(w1, s, f,
                            {pl \in ps \ {p} : needsPlayer(w1, w1.ships[s].flags[f], f, pl)})
                : p \in ps}

\* The outer loop of Ship.addPlayersToFlags over the flags of the map, in order.
RECURSIVE flagLoop(_, _, _, _)
flagLoop(w, s, eligible, order) ==
    IF order = <<>> \/ ~Ok(w) THEN {w}
    ELSE LET f == order[1]
         IN IF eligible[f] = {} THEN flagLoop(w, s, eligible, Tail(order))
            ELSE UNION {flagLoop(IF Ok(w1) /\ hasAllPlayers(w1.ships[s].flags[f], f)
                                 THEN startMinigameForFlag(w1, s, f) ELSE w1,
                                 s, eligible, Tail(order))
                        : w1 \in lockLoop(w, s, f, eligible[f])}

\* Ship.addPlayersToFlags
addPlayersToFlags(w, s) ==
    IF ~Ok(w) \/ w.ships[s].isEndgame THEN {w}
    ELSE UNION {flagLoop(w, s, eligible, order) :
                    eligible \in findEligiblePlayersForFlags(w, s), order \in FlagOrders}

\* Ship.startCooldown
startCooldown(w, s, f) == [w EXCEPT !.ships[s].flags[f].cooldown = TickingTimer]

\* Ship.notifyMinigameResult.  winningTeam is a team index, or NoOwner for nil.
notifyMinigameResult(w, s, f, winningTeam) ==
    SendAll(w, ShipPlayers(w, s),
            [Msg(0, "ship_minigame_finished") EXCEPT !.flag = f, !.team = winningTeam])

\* Ship.welcomePlayerBack
welcomePlayerBack(w, s, p) ==
    SendAll(Send(w, p, "ship_welcome_back"), ShipPlayers(w, s) \ {p},
            [Msg(0, "ship_welcome_back_peer") EXCEPT !.who = p])

\* The loop of Ship.endMinigame that moves the shuffled participants back.
RECURSIVE welcomeBackLoop(_, _, _)
welcomeBackLoop(w, s, order) ==
    IF order = <<>> THEN w
    ELSE welcomeBackLoop(
            welcomePlayerBack([w EXCEPT !.players[order[1]].Activity = ShipAct(s)], s, order[1]),
            s, Tail(order))

\* Ship.endMinigame that gives the flag to result.winningTeam even when it is nil.
endMinigame_ownerAlways(w, s, f, result) ==
    IF ~Ok(w) THEN {w}
    ELSE LET w0 == IF result.disconnected = 0 THEN [w EXCEPT !.ships[s].played = @ + 1] ELSE w
             w1 == IF ~w.ships[s].isEndgame THEN startCooldown(w0, s, f) ELSE w0
             w2 == [w1 EXCEPT !.ships[s].flags[f].owner = result.winningTeam]
             w3 == notifyMinigameResult(w2, s, f, result.winningTeam)
             w4 == [w3 EXCEPT !.ships[s].flags[f].minigame = FALSE]
             connectedParticipants == CtxPlayers(w, s, f) \ {result.disconnected}
             w5 == [w4 EXCEPT !.ships[s].individualScores =
                        [p \in Clients |->
                            IF p \in connectedParticipants /\ TeamOf(w, p) = result.winningTeam
                            THEN @[p] + IndividualWorth(f) ELSE @[p]]]
             back == {welcomeBackLoop(w5, s, order) : order \in Orderings(connectedParticipants)}
             after(w7) ==
                LET w8 == IF HasEnded(w7.ships[s].timer) THEN triggerEndgame(w7, s, 0) ELSE w7
                IN IF ~Ok(w8) THEN {w8}
                   ELSE IF result.disconnected # 0
                   THEN {removePlayer([w8 EXCEPT !.players[result.disconnected].Activity = ShipAct(s)],
                                      s, result.disconnected)}
                   ELSE addPlayersToFlags(w8, s)
         IN UNION {after(w7) : w7 \in back}

\* Ship.endMinigame.  result = [winningTeam |-> team index or NoOwner,
\* disconnected |-> player or 0].
endMinigame(w, s, f, result) ==
    IF ~Ok(w) THEN {w}
    ELSE LET w0 == IF result.disconnected = 0 THEN [w EXCEPT !.ships[s].played = @ + 1] ELSE w
             w1 == IF ~w.ships[s].isEndgame THEN startCooldown(w0, s, f) ELSE w0
             w2 == IF result.winningTeam # NoOwner
                   THEN [w1 EXCEPT !.ships[s].flags[f].owner = result.winningTeam] ELSE w1
             w3 == notifyMinigameResult(w2, s, f, result.winningTeam)
             w4 == [w3 EXCEPT !.ships[s].flags[f].minigame = FALSE]
             connectedParticipants == CtxPlayers(w, s, f) \ {result.disconnected}
             w5 == [w4 EXCEPT !.ships[s].individualScores =
                        [p \in Clients |->
                            IF p \in connectedParticipants /\ TeamOf(w, p) = result.winningTeam
                            THEN @[p] + IndividualWorth(f) ELSE @[p]]]
             back == {welcomeBackLoop(w5, s, order) : order \in Orderings(connectedParticipants)}
             after(w7) ==
                LET w8 == IF HasEnded(w7.ships[s].timer) THEN triggerEndgame(w7, s, 0) ELSE w7
                IN IF ~Ok(w8) THEN {w8}
                   ELSE IF result.disconnected # 0
                   THEN {removePlayer([w8 EXCEPT !.players[result.disconnected].Activity = ShipAct(s)],
                                      s, result.disconnected)}
                   ELSE addPlayersToFlags(w8, s)
         IN UNION {after(w7) : w7 \in back}

\* Ship.activateFlag
activateFlag(w, s, player, f) ==
    LET now == w.ships[s].clock
        w1 == [w EXCEPT !.ships[s].clock = now + 1]
    IN IF MinigamePrototype(f).PlayerCount = 1
       THEN {startMinigameForFlag(
                [w1 EXCEPT !.ships[s].flags[f].activation =
                    [startTime |-> now, lockedPlayers |-> {player}]], s, f)}
       ELSE addPlayersToFlags(
                addPlayerToFlag(
                    [w1 EXCEPT !.ships[s].flags[f].activation =
                        [startTime |-> now, lockedPlayers |-> {}]], s, f, player), s)

\* Ship.tryActivateFlag without the check that the player is not locked.
tryActivateFlag_noLockCheck(w, s, player, pos) ==
    LET sh == w.ships[s]
        f  == findNearestFlag(pos)
    IN IF sh.isEndgame THEN {Send(w, player, "ship_no_flags_in_endgame")}
       ELSE IF f \notin Flags THEN {Send(w, player, "ship_no_flags_in_reach")}
       ELSE IF w.players[player].Team = [lobby |-> sh.lobby, index |-> sh.flags[f].owner]
       THEN {SendFlag(w, player, "ship_flag_already_captured", f)}
       ELSE IF sh.flags[f].minigame THEN {SendFlag(w, player, "ship_flag_in_use", f)}
       ELSE IF ~HasEnded(sh.flags[f].cooldown)
       THEN {SendFlag(w, player, "ship_flag_cooling_down", f)}
       ELSE IF isActivated(sh.flags[f])
       THEN {SendFlag(w, player, "ship_flag_already_activated", f)}
       ELSE activateFlag(w, s, player, f)

\* Ship.tryActivateFlag without the endgame check.
tryActivateFlag_noEndgameCheck(w, s, player, pos) ==
    LET sh == w.ships[s]
        f  == findNearestFlag(pos)
    IN IF f \notin Flags THEN {Send(w, player, "ship_no_flags_in_reach")}
       ELSE IF flagForPlayer(sh, player) # NoFlag THEN {Send(w, player, "ship_player_locked")}
       ELSE IF w.players[player].Team = [lobby |-> sh.lobby, index |-> sh.flags[f].owner]
       THEN {SendFlag(w, player, "ship_flag_already_captured", f)}
       ELSE IF sh.flags[f].minigame THEN {SendFlag(w, player, "ship_flag_in_use", f)}
       ELSE IF ~HasEnded(sh.flags[f].cooldown)
       THEN {SendFlag(w, player, "ship_flag_cooling_down", f)}
       ELSE IF isActivated(sh.flags[f])
       THEN {SendFlag(w, player, "ship_flag_already_activated", f)}
       ELSE activateFlag(w, s, player, f)

\* Ship.tryActivateFlag without the cooldown check.
tryActivateFlag_noCooldownCheck(w, s, player, pos) ==
    LET sh == w.ships[s]
        f  == findNearestFlag(pos)
    IN IF sh.isEndgame THEN {Send(w, player, "ship_no_flags_in_endgame")}
       ELSE IF f \notin Flags THEN {Send(w, player, "ship_no_flags_in_reach")}
       ELSE IF flagForPlayer(sh, player) # NoFlag THEN {Send(w, player, "ship_player_locked")}
       ELSE IF w.players[player].Team = [lobby |-> sh.lobby, index |-> sh.flags[f].owner]
       THEN {SendFlag(w, player, "ship_flag_already_captured", f)}
       ELSE IF sh.flags[f].minigame THEN {SendFlag(w, player, "ship_flag_in_use", f)}
       ELSE IF isActivated(sh.flags[f])
       THEN {SendFlag(w, player, "ship_flag_already_activated", f)}
       ELSE activateFlag(w, s, player, f)

\* Ship.tryActivateFlag.  pos is the position the player has in pm.Map.
tryActivateFlag(w, s, player, pos) ==
    LET sh == w.ships[s]
        f  == findNearestFlag(pos)
    IN IF sh.isEndgame THEN {Send(w, player, "ship_no_flags_in_endgame")}
       ELSE IF f \notin Flags THEN {Send(w, player, "ship_no_flags_in_reach")}
       ELSE IF flagForPlayer(sh, player) # NoFlag THEN {Send(w, player, "ship_player_locked")}
       ELSE IF w.players[player].Team = [lobby |-> sh.lobby, index |-> sh.flags[f].owner]
       THEN {SendFlag(w, player, "ship_flag_already_captured", f)}
       ELSE IF sh.flags[f].minigame THEN {SendFlag(w, player, "ship_flag_in_use", f)}
       ELSE IF ~HasEnded(sh.flags[f].cooldown)
       THEN {SendFlag(w, player, "ship_flag_cooling_down", f)}
       ELSE IF isActivated(sh.flags[f])
       THEN {SendFlag(w, player, "ship_flag_already_activated", f)}
       ELSE activateFlag(w, s, player, f)

\* PositionManager.doPositionUpdate / doSetPosition / notifyNewPosition.  xy
\* is "ok", or "bad_x" / "bad_y" when that field is missing or not a number.
doPositionUpdate(w, s, player, xy) ==
    IF xy = "bad_x" THEN Send(w, player, "ship_mov_position_update_bad_x_error")
    ELSE IF xy = "bad_y" THEN Send(w, player, "ship_mov_position_update_bad_y_error")
    ELSE SendAll(w, ShipPlayers(w, s) \ {player},
                 [Msg(0, "ship_mov_peer_position_update") EXCEPT !.who = player])

\* The message types that start with pm.msgPrefix, "ship_mov_" (the one the
\* position manager knows and one it does not).
msgPrefixTypes == {"ship_mov_position_update", "ship_mov_teleport"}

\* PositionManager.HandleMessage: handled, the error it returns, and the
\* outcome.
pmHandleMessage(w, s, player, m) ==
    IF m.type \notin msgPrefixTypes THEN [handled |-> FALSE, err |-> FALSE, w |-> w]
    ELSE IF m.type # "ship_mov_position_update"
    THEN [handled |-> TRUE, err |-> TRUE, w |-> w]
    ELSE [handled |-> TRUE, err |-> FALSE, w |-> doPositionUpdate(w, s, player, m.xy)]

\* Ship.HandleMessage
ShipHandleMessage(w, s, player, m) ==
    IF m.type = "ship_flag_activate" THEN tryActivateFlag(w, s, player, m.pos)
    ELSE IF m.type = "lobby_bye" THEN {removePlayer(w, s, player)}
    ELSE IF pmHandleMessage(w, s, player, m).handled
    THEN {pmHandleMessage(w, s, player, m).w}
    ELSE {Send(w, player, "ship_unknown_message_type_error")}

\* Ship.tick
tick(w, s) ==
    IF HasEnded(w.ships[s].timer) THEN w
    ELSE SendAll(w, ShipPlayers(w, s), Msg(0, "ship_tick"))

\* Ship.notifyCooldownTick and Ship.notifyCooldownEnd
notifyCooldownTick(w, s, f) ==
    SendAll(w, ShipPlayers(w, s), [Msg(0, "ship_flag_cooldown_tick") EXCEPT !.flag = f])

\* Ship.welcomeAll: everyone is moved into the ship, then sent ship_welcome.
welcomeAll(w, s) ==
    IF ~Ok(w) THEN w
    ELSE LET ps == LobbyPlayers(w, w.ships[s].lobby)
         IN SendAll([w EXCEPT !.players = [p \in Clients |->
                                  IF p \in ps THEN [@[p] EXCEPT !.Activity = ShipAct(s)] ELSE @[p]]],
                    ps, Msg(0, "ship_welcome"))

\* NewShip, then Ship.createInitialScores and Ship.createFlags.
NewShip(w, L) ==
    [lobby |-> L, isEndgame |-> FALSE, timer |-> ExpiredTimer,
     flags |-> [f \in Flags |-> [minigame |-> FALSE, owner |-> NoOwner,
                                 cooldown |-> ExpiredTimer, activation |-> NoActivation]],
     individualScores |-> [p \in Clients |-> IF p \in LobbyPlayers(w, L) THEN 0 ELSE NoScore],
     clock |-> 0, played |-> 0, ended |-> FALSE]

\* The Ship object the next NewShip call creates.
NextShip(w) == CHOOSE s \in ShipIds : w.ships[s] = NoShip /\ \A t \in ShipIds : t < s => w.ships[t] # NoShip

\* Ship.Start (with Ship.startTimer)
Start(w, L) ==
    LET s == NextShip(w)
        w1 == [w EXCEPT !.ships[s] = NewShip(w, L)]
    IN {[welcomeAll(w1, s) EXCEPT !.ships[s].timer = TickingTimer]}

\* LobbyActivity.notifyReadyChange
notifyReadyChange(w, c) ==
    SendAll(w, LobbyPeers(w, c), [Msg(0, "lobby_peer_ready_change") EXCEPT !.who = c])

\* The condition under which LobbyActivity.doReadyUp calls doStartGame.
AllPlayersReady(w, A, c) ==
    LET readyCount == Cardinality(w.readyPlayers[A] \cup {c})
    IN readyCount = FullLobby \/ (AllowSmallerLobbies /\ readyCount = PlayerCount(w, A))

\* LobbyActivity.doStartGame
doStartGame(w, A) == Start([w EXCEPT !.readyPlayers[A] = {}], A)

\* LobbyActivity.doReadyUp
doReadyUp(w, A, c) ==
    IF ~IsReady(w, A) THEN {Send(w, c, "lobby_ready_change_teams_not_ready_error")}
    ELSE LET w1 == notifyReadyChange([w EXCEPT !.readyPlayers[A] = @ \cup {c}], c)
         IN IF AllPlayersReady(w, A, c) THEN doStartGame(w1, A) ELSE {w1}

\* LobbyActivity.doReadyChange.  ready is "true", "false", or "bad" when the
\* field is missing or not a boolean.
doReadyChange(w, A, c, ready) ==
    IF ready = "true" THEN doReadyUp(w, A, c)
    ELSE IF ready = "false" THEN {doUnready(w, A, c)}
    ELSE {Send(w, c, "lobby_ready_change_format_error")}

\* LobbyActivity.HandleMessage
LobbyHandleMessage(w, A, c, m) ==
    IF m.type = "lobby_team_change" THEN {doTeamChange(w, A, c, m.team)}
    ELSE IF m.type = "lobby_ready_change" THEN doReadyChange(w, A, c, m.ready)
    ELSE IF m.type = "lobby_bye" THEN {doBye(w, A, c)}
    ELSE {Send(w, c, "lobby_unrecognised_message_type")}

\* ------------------------------------------------------- MinigameContext
\* The MinigameResult constructors.
NoResult == [winningTeam |-> NoOwner, disconnected |-> -1]

MultiplayerResult(team) == [winningTeam |-> team, disconnected |-> 0]

SinglePlayerWin(w, p) == [winningTeam |-> TeamOf(w, p), disconnected |-> 0]

SinglePlayerLoss == [winningTeam |-> NoOwner, disconnected |-> 0]

SinglePlayerDisconnection(p) == [winningTeam |-> NoOwner, disconnected |-> p]

\* with Team.OpposingTeam
MultiplayerDisconnection(w, p) == [winningTeam |-> 1 - TeamOf(w, p), disconnected |-> p]

\* The results the implementation behind flag f can pass to MinigameContext.End
\* when the game is played to its end.
PlayedResults(w, s, f) ==
    CASE f = "flag2" -> {SinglePlayerWin(w, p) : p \in CtxPlayers(w, s, f)} \cup {SinglePlayerLoss}
      [] f = "shush" -> {SinglePlayerWin(w, p) : p \in CtxPlayers(w, s, f)} \cup {SinglePlayerLoss}
      [] f = "blah"  -> {MultiplayerResult(t) : t \in TeamIdx}
      [] f = "dmspt" -> {MultiplayerResult(t) : t \in TeamIdx \cup {NoOwner}}

\* MinigameImpl.HandleDisconnection of the implementation behind flag f.
DisconnectionResult(w, f, p) ==
    IF MinigamePrototype(f).PlayerCount = 1
    THEN SinglePlayerDisconnection(p) ELSE MultiplayerDisconnection(w, p)

\* MinigameContext.End without ensureValid.
End_noValidityCheck(w, s, f, result) == endMinigame(w, s, f, result)

\* MinigameContext.End
End(w, s, f, result) ==
    IF ~w.ships[s].flags[f].minigame
    THEN {Panic(w, "panic: minigame context method called on invalid context")}
    ELSE endMinigame(w, s, f, result)

\* MinigameContext.HandleMessage.  m.result is what the implementation's Handle
\* does with the message: NoResult when the game goes on.
MinigameHandleMessage(w, s, f, p, m) ==
    IF ~w.ships[s].flags[f].minigame
    THEN {Panic(w, "panic: minigame context method called on invalid context")}
    ELSE IF m.type = "lobby_bye" THEN End(w, s, f, DisconnectionResult(w, f, p))
    ELSE IF m.type \in {"ship_flag_activate", "ship_mov_position_update"} THEN {w}
    ELSE IF m.result = NoResult THEN {w}
    ELSE End(w, s, f, m.result)

\* ------------------------------------------------------------ Client / Hub
\* Client.Receive.  L is the Lobby object createLobby would allocate and code
\* the lobby code randomLobbyCode would draw.
Receive(w, c, m, L, code) ==
    IF m.type = "lobby_create" THEN {HandleLobbyCreate(w, c, L, code)}
    ELSE IF m.type = "lobby_join" THEN {doLobbyJoin(w, c, m.id)}
    ELSE IF w.players[c] # NoPlayer
    THEN LET act == w.players[c].Activity
         IN CASE act.kind = "lobby" -> LobbyHandleMessage(w, act.lobby, c, m)
              [] act.kind = "ship" -> ShipHandleMessage(w, act.ship, c, m)
              [] act.kind = "minigame" -> MinigameHandleMessage(w, act.ship, act.flag, c, m)
              [] OTHER -> {Panic(w, "panic: nil pointer dereference")}
    ELSE {Send(w, c, "client_unknown_non_lobby_message")}

\* An inbound message: its type and the fields the handlers parse.
InMsg(type) ==
    [type |-> type, id |-> NoCode, team |-> NoOwner, ready |-> "bad",
     pos |-> [X |-> 0, Y |-> 0], xy |-> "ok", result |-> NoResult]

\* The error Client.Receive returns to handleIncoming for message m of client
\* c, as far as it comes from reading the message: Message.GetString in
\* doLobbyJoin and the unknown type of PositionManager.HandleMessage.
ReceiveErr(w, c, m) ==
    IF m.type = "lobby_create" THEN FALSE
    ELSE IF m.type = "lobby_join" THEN m.id = NoCode
    ELSE /\ w.players[c] # NoPlayer
         /\ w.players[c].Activity.kind = "ship"
         /\ m.type \notin {"ship_flag_activate", "lobby_bye"}
         /\ pmHandleMessage(w, w.players[c].Activity.ship, c, m).err

\* killClient after client.conn.Close(): the synthetic lobby_bye and the check
\* of the player pointer.
softLeave(w, c) ==
    {IF Ok(w1) /\ w1.players[c] # NoPlayer
     THEN Panic(w1, "panic: lobby_bye did not remove player pointer") ELSE w1
     : w1 \in Receive(w, c, InMsg("lobby_bye"), NoLobby, NoCode)}

\* killClient
killClient(w, c) ==
    IF w.players[c] = NoPlayer THEN {w} ELSE softLeave(w, c)

\* The scheduled functions of the ship timer: Ship.tick and the end callback
\* of Ship.startTimer.
handleEvent(w, e) ==
    CASE e.kind = "shipTick" -> tick(w, e.ship)
      [] e.kind = "shipEnd" -> triggerEndgame(w, e.ship, 0)

\* --------------------------------------------------------------- the inputs
\* The positions a player has in pm.Map: at each flag, and at a spawn point.
Positions == {FlagPos(f) : f \in Flags} \cup {[X |-> 0, Y |-> 416]}

\* The messages a client can send in the state w.  "minigame_input" stands
\* for any message of a minigame's own protocol; its result is what the
\* implementation makes of it, so it is only drawn for a player inside a game
\* (and, as a bound, while fewer than MaxPlayed games of the session have
\* been played to their end).
Messages(w, c) ==
    {InMsg("lobby_create"), InMsg("lobby_bye"), InMsg("ship_mov_position_update"),
     InMsg("minigame_input")}
    \cup {[InMsg("lobby_join") EXCEPT !.id = id] : id \in LobbyCodes}
    \cup {[InMsg("lobby_team_change") EXCEPT !.team = t] : t \in TeamIdx}
    \cup {[InMsg("lobby_ready_change") EXCEPT !.ready = r] : r \in {"true", "false"}}
    \cup {[InMsg("ship_flag_activate") EXCEPT !.pos = pos] : pos \in Positions}
    \cup IF /\ w.players[c] # NoPlayer
             /\ w.players[c].Activity.kind = "minigame"
             /\ w.ships[w.players[c].Activity.ship].played < MaxPlayed
         THEN {[InMsg("minigame_input") EXCEPT !.result = r] :
                 r \in PlayedResults(w, w.players[c].Activity.ship, w.players[c].Activity.flag)}
         ELSE {}

\* The bounds of the model, as guards on the inputs: a lobby_create needs an
\* unused Lobby object, a game start an unused Ship object, and only the
\* first NumJoiners clients send messages while they have no player.
WithinBounds(w, c, m) ==
    LET pl == w.players[c]
    IN /\ m.type = "lobby_create" => FreeLobbies(w) # {}
       /\ c > NumJoiners => pl # NoPlayer
       /\ (/\ m.type = "lobby_ready_change" /\ m.ready = "true"
           /\ pl # NoPlayer /\ pl.Activity.kind = "lobby"
           /\ IsReady(w, pl.Activity.lobby) /\ AllPlayersReady(w, pl.Activity.lobby, c))
          => \E s \in ShipIds : w.ships[s] = NoShip

\* The data of a Ship whose session was finalized: its timers' closures are
\* the only references left, and they read none of it.
Collect(sh) ==
    IF sh = NoShip \/ ~sh.ended THEN sh
    ELSE [sh EXCEPT !.individualScores = [p \in Clients |-> NoScore],
                    !.clock = 0,
                    !.played = 0,
                    !.flags = [f \in Flags |-> [@[f] EXCEPT !.owner = NoOwner,
                                                            !.cooldown = ExpiredTimer]]]

\* The state after construction: NewLobbyManager, NewHub.
Fresh ==
    [activities |-> [code \in LobbyCodes |-> NoLobby],
     lobbies |-> [L \in Lobbies |-> [ID |-> NoCode, Teams |-> [i \in TeamIdx |-> {}]]],
     readyPlayers |-> [L \in Lobbies |-> {}],
     players |-> [c \in Clients |-> NoPlayer],
     ships |-> [s \in ShipIds |-> NoShip],
     events |-> <<>>,
     sent |-> EmptyBag,
     halted |-> NotHalted]

\* The program state a handler leaves behind.  After a panic or a hang nothing
\* reads the program's data again: only the reason is kept.
CommitGame(w) ==
    LET v == IF Ok(w) THEN w ELSE [Fresh EXCEPT !.halted = w.halted]
    IN /\ activities' = v.activities
       /\ lobbies' = v.lobbies
       /\ readyPlayers' = v.readyPlayers
       /\ players' = v.players
       /\ ships' = [s \in ShipIds |-> Collect(v.ships[s])]
       /\ events' = v.events
       /\ halted' = v.halted

\* The state a turn of the main loop leaves behind.
Commit(w) == CommitGame(w) /\ UNCHANGED hubVars

Init ==
    /\ activities = Fresh.activities
    /\ lobbies = Fresh.lobbies
    /\ readyPlayers = Fresh.readyPlayers
    /\ players = Fresh.players
    /\ ships = Fresh.ships
    /\ events = Fresh.events
    /\ halted = Fresh.halted
    /\ loop = [pc |-> "select", item |-> "none"]
    /\ ftimer = NoTimer
    /\ calls = {}
    /\ out = 0
    /\ kill = 0
    /\ writer = "recv"
    /\ conn = NoConn
    /\ codec = NoCodec
    /\ minigames = NoGames

\* The Lobby object createLobby allocates next.
NextLobby(w) == CHOOSE L \in FreeLobbies(w) : \A K \in FreeLobbies(w) : L <= K

\* The outcomes of the turn that handles message m of client c.
MessageTurn(w, c, m, code) ==
    Receive(w, c, m, IF m.type = "lobby_create" THEN NextLobby(w) ELSE NoLobby, code)

\* Hub.handleIncoming: one message from hub.in.
HandleIncoming ==
    /\ halted = NotHalted
    /\ \E c \in Clients : \E m \in Messages(Now, c) :
        /\ WithinBounds(Now, c, m)
        /\ \E code \in IF m.type = "lobby_create" THEN LobbyCodes ELSE {NoCode} :
           \E w \in MessageTurn(Now, c, m, code) : Commit(w)

\* One notice from hub.kill: the connection of c is gone (the client id is
\* then free for a new connection).
KillClient ==
    /\ halted = NotHalted
    /\ \E c \in Clients : \E w \in killClient(Now, c) : Commit(w)

\* Hub.handleEvent: one scheduled function from hub.event.
HandleEvent ==
    /\ halted = NotHalted
    /\ events # <<>>
    /\ Commit(handleEvent([Now EXCEPT !.events = Tail(@)], Head(events)))

\* A scheduled function of a running minigame (a round or game timer) ends
\* the game through MinigameContext.End.
MinigameEvent ==
    /\ halted = NotHalted
    /\ \E s \in ShipIds : \E f \in Flags :
        /\ ships[s] # NoShip
        /\ ships[s].flags[f].minigame
        /\ ships[s].played < MaxPlayed
        /\ \E r \in PlayedResults(Now, s, f) : \E w \in End(Now, s, f, r) : Commit(w)

\* ------------------------------------------------------- timer goroutines
ShipEvent(kind, s) == [kind |-> kind, ship |-> s]

\* The wall clock passes the End of a ship timer.
ShipTimerElapse ==
    /\ halted = NotHalted
    /\ \E s \in ShipIds :
        /\ ships[s] # NoShip
        /\ ships[s].timer.running
        /\ ships' = [ships EXCEPT ![s].timer.running = FALSE]
    /\ UNCHANGED <<activities, lobbies, readyPlayers, players, events, halted, hubVars>>

\* TickingTimer, ticker case: s.Add(fn) with fn = Ship.tick.
ShipTimerTick ==
    /\ halted = NotHalted
    /\ Len(events) < MaxEvents
    /\ \E s \in ShipIds :
        /\ ships[s] # NoShip
        /\ ships[s].timer.live
        /\ events' = Append(events, ShipEvent("shipTick", s))
    /\ UNCHANGED <<activities, lobbies, readyPlayers, players, ships, halted, hubVars>>

\* TickingTimer, quit case fed by the sleeping goroutine: s.Add(onNormalEnd).
ShipTimerFire ==
    /\ halted = NotHalted
    /\ Len(events) < MaxEvents
    /\ \E s \in ShipIds :
        /\ ships[s] # NoShip
        /\ ships[s].timer.live /\ ~ships[s].timer.running
        /\ ships' = [ships EXCEPT ![s].timer.live = FALSE]
        /\ events' = Append(events, ShipEvent("shipEnd", s))
    /\ UNCHANGED <<activities, lobbies, readyPlayers, players, halted, hubVars>>

\* The wall clock passes the End of a flag's cooldown timer.
CooldownElapse ==
    /\ halted = NotHalted
    /\ \E s \in ShipIds : \E f \in Flags :
        /\ ships[s] # NoShip
        /\ ships[s].flags[f].cooldown.running
        /\ ships' = [ships EXCEPT ![s].flags[f].cooldown.running = FALSE]
    /\ UNCHANGED <<activities, lobbies, readyPlayers, players, events, halted, hubVars>>

\* A cooldown timer's ticker case, and the turn that runs the scheduled
\* Ship.notifyCooldownTick.
CooldownTick ==
    /\ halted = NotHalted
    /\ \E s \in ShipIds : \E f \in Flags :
        /\ ships[s] # NoShip
        /\ ships[s].flags[f].cooldown.live
        /\ Commit(notifyCooldownTick(Now, s, f))

\* A cooldown timer's quit case fed by the sleeping goroutine, and the turn
\* that runs the scheduled Ship.notifyCooldownEnd.
CooldownEnd ==
    /\ halted = NotHalted
    /\ \E s \in ShipIds : \E f \in Flags :
        /\ ships[s] # NoShip
        /\ ships[s].flags[f].cooldown.live /\ ~ships[s].flags[f].cooldown.running
        /\ Commit(notifyCooldownTick([Now EXCEPT !.ships[s].flags[f].cooldown.live = FALSE], s, f))

Next ==
    \/ HandleIncoming
    \/ KillClient
    \/ HandleEvent
    \/ MinigameEvent
    \/ ShipTimerElapse
    \/ ShipTimerTick
    \/ ShipTimerFire
    \/ CooldownElapse
    \/ CooldownTick
    \/ CooldownEnd

Spec == Init /\ [][Next]_vars

\* Sanity of the model's representation.
TypeOK ==
    /\ \A c \in Clients : players[c] # NoPlayer =>
            /\ players[c].Team # NoTeam
            /\ c \in lobbies[players[c].Team.lobby].Teams[players[c].Team.index]
    /\ \A L \in Lobbies : \A i \in TeamIdx : \A c \in lobbies[L].Teams[i] :
            players[c] # NoPlayer /\ players[c].Team = [lobby |-> L, index |-> i]
    /\ \A c \in Clients : (players[c] # NoPlayer /\ players[c].Activity.kind = "minigame") =>
            /\ ships[players[c].Activity.ship].flags[players[c].Activity.flag].minigame
            /\ ships[players[c].Activity.ship].lobby = players[c].Team.lobby

\* ------------------------------------------- goroutines and channels
\* The turns above are atomic.  The actions below follow the goroutines of the
\* hub step by step instead: the main loop, one FunctionTimer from its
\* creation on, and the outbound writer, with the channels between them.  A
\* handler is then only what it does to those: it may create the timer, call
\* Stop on it and call Client.Send, any number of times.

\* The capacities NewHub gives hub.event, hub.out and hub.kill.
eventCap == 10
outCap == 10
killCap == 20

\* A function of the timer, as an entry of hub.event.
TimerEvent(kind) == [kind |-> kind, ship |-> 0]

\* Scheduler.Add that calls the function on the calling goroutine.
Add_callDirectly(q, cl, fn) ==
    [events |-> q, calls |-> cl \cup {[by |-> "timer", what |-> fn.kind]}]

\* Scheduler.Add, called by a timer goroutine: s.event <- fn.
Add(q, cl, fn) == [events |-> Append(q, fn), calls |-> cl]

\* runMainGameLoop, case msg := <-hub.in: handleIncoming begins.
LoopTakesMessage ==
    /\ loop.pc = "select"
    /\ loop' = [pc |-> "run", item |-> "message"]
    /\ calls' = calls \cup {[by |-> "main", what |-> "message"]}
    /\ UNCHANGED <<gameVars, conn, codec, minigames, events, ftimer, out, kill, writer>>

\* runMainGameLoop, case fn := <-hub.event: handleEvent(fn) begins.
LoopTakesEvent ==
    /\ loop.pc = "select"
    /\ events # <<>>
    /\ loop' = [pc |-> "run", item |-> Head(events).kind]
    /\ calls' = calls \cup {[by |-> "main", what |-> Head(events).kind]}
    /\ events' = Tail(events)
    /\ UNCHANGED <<gameVars, conn, codec, minigames, ftimer, out, kill, writer>>

\* runMainGameLoop, case client := <-hub.kill: killClient begins.
LoopTakesKill ==
    /\ loop.pc = "select"
    /\ kill > 0
    /\ kill' = kill - 1
    /\ loop' = [pc |-> "run", item |-> "kill"]
    /\ calls' = calls \cup {[by |-> "main", what |-> "kill"]}
    /\ UNCHANGED <<gameVars, conn, codec, minigames, events, ftimer, out, writer>>

\* The handler in progress returns to the select of the main loop.
LoopReturns ==
    /\ loop.pc = "run"
    /\ loop' = [pc |-> "select", item |-> "none"]
    /\ calls' = calls \ {[by |-> "main", what |-> loop.item]}
    /\ UNCHANGED <<gameVars, conn, codec, minigames, events, ftimer, out, kill, writer>>

\* The handler in progress creates the timer: TickingTimer or SingleTimer.
LoopStartsTimer ==
    /\ loop.pc = "run"
    /\ ftimer = NoTimer
    /\ \E kind \in {"ticking", "single"} : ftimer' = NewTimer(kind)
    /\ UNCHANGED <<gameVars, conn, codec, minigames, events, loop, calls, out, kill, writer>>

\* The handler in progress calls Stop: FunctionTimer.StopWith(nil) returns at
\* once if HasEnded, and else goes to its send timer.quit <- fn.
LoopCallsStop ==
    /\ loop.pc = "run"
    /\ ftimer # NoTimer
    /\ loop' = IF HasEnded(ftimer) THEN loop ELSE [loop EXCEPT !.pc = "stop"]
    /\ UNCHANGED <<gameVars, conn, codec, minigames, events, ftimer, calls, out, kill, writer>>

\* The select of the timer's goroutine receives the nil function from quit
\* and returns; StopWith then sets quit = nil in its copy of the timer and
\* returns to the handler.
TimerReceivesStop ==
    /\ loop.pc = "stop"
    /\ ftimer.ticker = "select"
    /\ ftimer' = [ftimer EXCEPT !.ticker = "done", !.live = FALSE, !.stopped = TRUE]
    /\ loop' = [loop EXCEPT !.pc = "run"]
    /\ UNCHANGED <<gameVars, conn, codec, minigames, events, calls, out, kill, writer>>

\* TickingTimer, case <-ticker.C: the goroutine goes on to s.Add(fn).
TickerFires ==
    /\ ftimer.kind = "ticking"
    /\ ftimer.ticker = "select"
    /\ ftimer' = [ftimer EXCEPT !.ticker = "addFn"]
    /\ UNCHANGED <<gameVars, conn, codec, minigames, events, loop, calls, out, kill, writer>>

\* The wall clock passes the timer's End: the sleeping goroutine of a
\* TickingTimer wakes up.
TimerElapses ==
    /\ ftimer.running
    /\ ftimer' = [ftimer EXCEPT !.running = FALSE,
                                !.sleeper = IF @ = "sleep" THEN "send" ELSE @]
    /\ UNCHANGED <<gameVars, conn, codec, minigames, events, loop, calls, out, kill, writer>>

\* TickingTimer: the select receives onNormalEnd, sent by the goroutine that
\* slept until End.
SleeperEndsTimer ==
    /\ ftimer.sleeper = "send"
    /\ ftimer.ticker = "select"
    /\ ftimer' = [ftimer EXCEPT !.sleeper = "done", !.ticker = "addEnd"]
    /\ UNCHANGED <<gameVars, conn, codec, minigames, events, loop, calls, out, kill, writer>>

\* SingleTimer, case <-timer.C: the goroutine goes on to s.Add(fn).
SingleTimerFires ==
    /\ ftimer.kind = "single"
    /\ ~ftimer.running
    /\ ftimer.ticker = "select"
    /\ ftimer' = [ftimer EXCEPT !.ticker = "addEnd"]
    /\ UNCHANGED <<gameVars, conn, codec, minigames, events, loop, calls, out, kill, writer>>

\* s.Add: the goroutine's send on hub.event goes through.
TimerSchedules ==
    /\ ftimer.ticker \in {"addFn", "addEnd"}
    /\ Len(events) < eventCap
    /\ LET fn == TimerEvent(IF ftimer.ticker = "addFn" THEN "tick" ELSE "end")
           r == Add(events, calls, fn)
       IN events' = r.events /\ calls' = r.calls
    /\ ftimer' = IF ftimer.ticker = "addFn"
                 THEN [ftimer EXCEPT !.ticker = "select"]
                 ELSE [ftimer EXCEPT !.ticker = "done", !.live = FALSE]
    /\ UNCHANGED <<gameVars, conn, codec, minigames, loop, out, kill, writer>>

TimerNext ==
    \/ LoopTakesMessage
    \/ LoopTakesEvent
    \/ LoopReturns
    \/ LoopStartsTimer
    \/ LoopCallsStop
    \/ TimerReceivesStop
    \/ TickerFires
    \/ TimerElapses
    \/ SleeperEndsTimer
    \/ SingleTimerFires
    \/ TimerSchedules

\* The main loop and one timer.
TimerSpec == Init /\ [][TimerNext]_vars

\* The handler in progress calls Client.Send, which goes to its send on c.out.
LoopCallsSend ==
    /\ loop.pc = "run"
    /\ loop' = [loop EXCEPT !.pc = "send"]
    /\ UNCHANGED <<gameVars, conn, codec, minigames, events, ftimer, calls, out, kill, writer>>

\* Client.Send: c.out <- ClientMessageOut{...} goes through, Send returns.
SendEnqueues ==
    /\ loop.pc = "send"
    /\ out < outCap
    /\ out' = out + 1
    /\ loop' = [loop EXCEPT !.pc = "run"]
    /\ UNCHANGED <<gameVars, conn, codec, minigames, events, ftimer, calls, kill, writer>>

\* runOutboundLoop: msg := <-hub.out, then conn.WriteMessage begins.
WriterTakes ==
    /\ writer = "recv"
    /\ out > 0
    /\ out' = out - 1
    /\ writer' = "write"
    /\ UNCHANGED <<gameVars, conn, codec, minigames, events, loop, ftimer, calls, kill>>

\* conn.WriteMessage returns nil.
WriterWrites ==
    /\ writer = "write"
    /\ writer' = "recv"
    /\ UNCHANGED <<gameVars, conn, codec, minigames, events, loop, ftimer, calls, out, kill>>

\* conn.WriteMessage returns an error: the writer goes to hub.kill <- msg.C.
WriterFails ==
    /\ writer = "write"
    /\ writer' = "kill"
    /\ UNCHANGED <<gameVars, conn, codec, minigames, events, loop, ftimer, calls, out, kill>>

\* hub.kill <- msg.C goes through.
WriterKills ==
    /\ writer = "kill"
    /\ kill < killCap
    /\ kill' = kill + 1
    /\ writer' = "recv"
    /\ UNCHANGED <<gameVars, conn, codec, minigames, events, loop, ftimer, calls, out>>

OutNext ==
    \/ LoopTakesMessage
    \/ LoopTakesKill
    \/ LoopReturns
    \/ LoopCallsSend
    \/ SendEnqueues
    \/ WriterTakes
    \/ WriterWrites
    \/ WriterFails
    \/ WriterKills

\* The main loop and the outbound writer.
OutSpec == Init /\ [][OutNext]_vars

\* ---------------------------------------------------------------- Message
\* A payload value is an interface{}: its dynamic type and, as a string, what
\* it holds.  NaN stands for the float64 values encoding/json refuses.
GoValues ==
    {[k |-> "nil", v |-> "null"], [k |-> "bool", v |-> "true"],
     [k |-> "int", v |-> "1"], [k |-> "float64", v |-> "1"],
     [k |-> "float64", v |-> "NaN"], [k |-> "string", v |-> "1"]}

\* The keys of the payloads and the message types the model draws.
PayloadKeys == {"type", "their_name", "x"}

MessageTypes == {"lobby_bye", "ship_mov_position_update"}

\* The payloads: maps from some of the keys to values.
Payloads == UNION {[ks -> GoValues] : ks \in SUBSET PayloadKeys}

\* The absent byte slice, and the absent *Message.
NoBytes == [none |-> "bytes"]
NoMessage == [none |-> "message"]

\* json.Marshal of one value: a JSON token [j, v], or an error.  Integers and
\* floats are both written as JSON numbers.
jsonMarshal(val) ==
    CASE val.k = "nil" -> [err |-> FALSE, json |-> [j |-> "null", v |-> "null"]]
      [] val.k = "bool" -> [err |-> FALSE, json |-> [j |-> "bool", v |-> val.v]]
      [] val.k = "string" -> [err |-> FALSE, json |-> [j |-> "string", v |-> val.v]]
      [] val.k = "int" -> [err |-> FALSE, json |-> [j |-> "number", v |-> val.v]]
      [] val.k = "float64" ->
            IF val.v = "NaN" THEN [err |-> TRUE, json |-> NoBytes]
            ELSE [err |-> FALSE, json |-> [j |-> "number", v |-> val.v]]

\* json.Unmarshal of one JSON token into an interface{}: every number becomes
\* a float64.
jsonUnmarshal(json) ==
    CASE json.j = "null" -> [k |-> "nil", v |-> "null"]
      [] json.j = "bool" -> [k |-> "bool", v |-> json.v]
      [] json.j = "string" -> [k |-> "string", v |-> json.v]
      [] json.j = "number" -> [k |-> "float64", v |-> json.v]

\* Message.Encode.  The bytes are the JSON object they spell: a map from keys
\* to JSON tokens.
Encode(msg) ==
    IF "type" \in DOMAIN msg.payload THEN [data |-> NoBytes, err |-> TRUE]
    ELSE IF \E key \in DOMAIN msg.payload : jsonMarshal(msg.payload[key]).err
    THEN [data |-> NoBytes, err |-> TRUE]
    ELSE [data |-> [key \in DOMAIN msg.payload \cup {"type"} |->
                        IF key = "type" THEN [j |-> "string", v |-> msg.Type]
                        ELSE jsonMarshal(msg.payload[key]).json],
          err |-> FALSE]

\* ParseMessage that leaves the "type" field in the payload.
ParseMessage_keepType(data) ==
    IF "type" \notin DOMAIN data THEN [msg |-> NoMessage, ok |-> FALSE]
    ELSE IF data["type"].j # "string" THEN [msg |-> NoMessage, ok |-> FALSE]
    ELSE [msg |-> [Type |-> data["type"].v,
                   payload |-> [key \in DOMAIN data |-> jsonUnmarshal(data[key])]],
          ok |-> TRUE]

\* ParseMessage, of bytes that spell a JSON object.
ParseMessage(data) ==
    IF "type" \notin DOMAIN data THEN [msg |-> NoMessage, ok |-> FALSE]
    ELSE IF data["type"].j # "string" THEN [msg |-> NoMessage, ok |-> FALSE]
    ELSE [msg |-> [Type |-> data["type"].v,
                   payload |-> [key \in DOMAIN data \ {"type"} |-> jsonUnmarshal(data[key])]],
          ok |-> TRUE]

\* A message is built: NewMessage and Message.Add.
CodecInit ==
    /\ Init!1 /\ Init!2 /\ Init!3 /\ Init!4 /\ Init!5 /\ Init!6 /\ Init!7
    /\ loop = [pc |-> "select", item |-> "none"]
    /\ ftimer = NoTimer
    /\ calls = {}
    /\ out = 0
    /\ kill = 0
    /\ writer = "recv"
    /\ conn = NoConn
    /\ minigames = NoGames
    /\ \E typ \in MessageTypes : \E payload \in Payloads :
        codec = [m |-> [Type |-> typ, payload |-> payload], stage |-> "new",
                 data |-> NoBytes, err |-> FALSE, parsed |-> NoMessage, ok |-> FALSE]

\* data, err := msg.Encode()
CodecEncodes ==
    /\ codec.stage = "new"
    /\ codec' = [codec EXCEPT !.stage = "encoded",
                              !.data = Encode(codec.m).data,
                              !.err = Encode(codec.m).err]
    /\ UNCHANGED <<gameVars, events, loop, ftimer, calls, out, kill, writer, conn, minigames>>

\* parsed, ok := ParseMessage(data), of the bytes Encode returned.
CodecParses ==
    /\ codec.stage = "encoded"
    /\ ~codec.err
    /\ codec' = [codec EXCEPT !.stage = "parsed",
                              !.parsed = ParseMessage(codec.data).msg,
                              !.ok = ParseMessage(codec.data).ok]
    /\ UNCHANGED <<gameVars, events, loop, ftimer, calls, out, kill, writer, conn, minigames>>

CodecNext ==
    \/ CodecEncodes
    \/ CodecParses

\* A message encoded and parsed again.
CodecSpec == CodecInit /\ [][CodecNext]_vars

\* ------------------------------------------------------------ killClient
\* killClient statement by statement, between messages handled as whole
\* turns.  conn is the client being killed: whether it had a player when the
\* kill began, whether conn.Close has been called and whether the synthetic
\* lobby_bye has been handled.

\* Hub.handleIncoming, when the main loop is at its select.
KillIncoming ==
    /\ loop.pc = "select"
    /\ HandleIncoming

\* runMainGameLoop, case client := <-hub.kill: killClient(client) begins.
KillTakes ==
    /\ halted = NotHalted
    /\ loop.pc = "select"
    /\ \E c \in Clients :
        conn' = [client |-> c, hadPlayer |-> players[c] # NoPlayer,
                 closed |-> FALSE, bye |-> FALSE]
    /\ loop' = [pc |-> "kill", item |-> "close"]
    /\ UNCHANGED <<gameVars, codec, minigames, events, ftimer, calls, out, kill, writer>>

\* killClient that does not close the connection.
KillCloses_not ==
    /\ loop = [pc |-> "kill", item |-> "close"]
    /\ loop' = [loop EXCEPT !.item = IF players[conn.client] = NoPlayer THEN "return" ELSE "bye"]
    /\ UNCHANGED <<gameVars, conn, codec, minigames, events, ftimer, calls, out, kill, writer>>

\* err := client.conn.Close(), then the test of client.Player.
KillCloses ==
    /\ loop = [pc |-> "kill", item |-> "close"]
    /\ conn' = [conn EXCEPT !.closed = TRUE]
    /\ loop' = [loop EXCEPT !.item = IF players[conn.client] = NoPlayer THEN "return" ELSE "bye"]
    /\ UNCHANGED <<gameVars, codec, minigames, events, ftimer, calls, out, kill, writer>>

\* err = client.Receive(NewMessage("lobby_bye")), then the check of the
\* player pointer.
KillLeaves ==
    /\ loop = [pc |-> "kill", item |-> "bye"]
    /\ \E w \in softLeave(Now, conn.client) : CommitGame(w)
    /\ conn' = [conn EXCEPT !.bye = TRUE]
    /\ loop' = [loop EXCEPT !.item = "return"]
    /\ UNCHANGED <<ftimer, calls, out, kill, writer, codec, minigames>>

\* killClient returns to the select of the main loop.
KillReturns ==
    /\ loop = [pc |-> "kill", item |-> "return"]
    /\ halted = NotHalted
    /\ loop' = [pc |-> "select", item |-> "none"]
    /\ conn' = NoConn
    /\ UNCHANGED <<gameVars, codec, minigames, events, ftimer, calls, out, kill, writer>>

KillNext ==
    \/ KillIncoming
    \/ KillTakes
    \/ KillCloses
    \/ KillLeaves
    \/ KillReturns

\* Messages handled turn by turn and clients killed step by step.
KillSpec == Init /\ [][KillNext]_vars

\* ------------------------------------------------------ a session of four
\* The messages that bring NumClients clients into one lobby and start its
\* session: the first creates the lobby, the others join it, all ready up.
CrewScript ==
    <<[c |-> 1, m |-> InMsg("lobby_create")]>>
    \o [i \in 1..(NumClients - 1) |->
            [c |-> i + 1, m |-> [InMsg("lobby_join") EXCEPT !.id = 0]]]
    \o [i \in 1..NumClients |->
            [c |-> i, m |-> [InMsg("lobby_ready_change") EXCEPT !.ready = "true"]]]

\* The states the hub can be in after handling the messages of script, one
\* turn each, from any of the states ws.
RECURSIVE CrewRun(_, _)
CrewRun(ws, script) ==
    IF script = <<>> THEN ws
    ELSE CrewRun(UNION {MessageTurn([w EXCEPT !.sent = EmptyBag], script[1].c, script[1].m, 0)
                        : w \in ws},
                 Tail(script))

\* The session has just started: everyone is in the Ship, no flag is touched.
CrewInit ==
    /\ \E w \in CrewRun({Fresh}, CrewScript) :
        /\ Ok(w)
        /\ activities = w.activities
        /\ lobbies = w.lobbies
        /\ readyPlayers = w.readyPlayers
        /\ players = w.players
        /\ ships = w.ships
        /\ events = w.events
        /\ halted = w.halted
    /\ loop = [pc |-> "select", item |-> "none"]
    /\ ftimer = NoTimer
    /\ calls = {}
    /\ out = 0
    /\ kill = 0
    /\ writer = "recv"
    /\ conn = NoConn
    /\ codec = NoCodec
    /\ minigames = NoGames

\* The messages of the session: a flag activation, a message of a minigame's
\* protocol, a player leaving.
CrewTypes == {"ship_flag_activate", "minigame_input", "lobby_bye"}

\* Hub.handleIncoming for the messages of the session.
CrewIncoming ==
    /\ halted = NotHalted
    /\ \E c \in Clients : \E m \in Messages(Now, c) :
        /\ m.type \in CrewTypes
        /\ WithinBounds(Now, c, m)
        /\ \E w \in MessageTurn(Now, c, m, NoCode) : Commit(w)

CrewNext ==
    \/ CrewIncoming
    \/ MinigameEvent
    \/ CooldownElapse

\* One session of NumClients players, within its time.
CrewSpec == CrewInit /\ [][CrewNext]_vars

\* ------------------------------------------------ minigame implementations
\* The single-player threshold minigames (click_race, moles, race) with the
\* ScoreStore of their flags, and the race with two teams.  minigames is
\*   cps, moles, bestTime: the stores StoreCtor made for the three flags;
\*   running, players:     the race prototype being played and its players;
\*   race:                 the race's state struct;
\*   result:               the MinigameResult the last game passed to ctx.End;
\*   last:                 the last single-player play: its game, whether it
\*                         has a score, the score, and the store before it.

\* The largest score a play of click_race or moles reports.
MaxScore == 2

\* race.timeout (seconds) and race.totalLaps
timeout == 150
totalLaps == 3

\* time.Now().Sub(s.startTime) when a lap is reported, in seconds.
FinishTimes == {50, 100, 150}

\* The player of the single-player flags, and the players of a 2v2 race.
SoloPlayers == {1}
Racers == {1, 2, 3, 4}

\* MinigameContext.ExactlyOnePlayer, of a context with one player.
ExactlyOnePlayer(ps) == CHOOSE q \in ps : TRUE

\* The players and teams the results refer to: player c is in team (c+1) % 2.
PlayWorld ==
    [players |-> [c \in Clients |->
        [Team |-> [lobby |-> 1, index |-> (c + 1) % 2], Activity |-> NilActivity]]]

NoPlay == [game |-> "none", scored |-> FALSE, score |-> 0, before |-> 0]

\* race.newState
newRaceState ==
    [unfinished |-> {}, laps |-> [p \in Racers |-> 0], finished |-> {},
     timeTaken |-> [p \in Racers |-> 0], points |-> [p \in Racers |-> 0]]

\* click_race state.endSp that also wins with a score equal to the threshold.
cps_endSp_orEqual(g, score) ==
    IF score >= g.cps
    THEN [g EXCEPT !.cps = score, !.result = SinglePlayerWin(PlayWorld, ExactlyOnePlayer(SoloPlayers))]
    ELSE [g EXCEPT !.result = SinglePlayerLoss]

\* click_race state.endSp, with the score the player reported.
cps_endSp(g, score) ==
    IF score > g.cps
    THEN [g EXCEPT !.cps = score, !.result = SinglePlayerWin(PlayWorld, ExactlyOnePlayer(SoloPlayers))]
    ELSE [g EXCEPT !.result = SinglePlayerLoss]

\* moles state.endNaturally, with game.score.
moles_endNaturally(g, score) ==
    IF score > g.moles
    THEN [g EXCEPT !.moles = score, !.result = SinglePlayerWin(PlayWorld, ExactlyOnePlayer(SoloPlayers))]
    ELSE [g EXCEPT !.result = SinglePlayerLoss]

\* HandleDisconnection of click_race and of moles in a single-player game.
solo_HandleDisconnection(g, p) == [g EXCEPT !.result = SinglePlayerDisconnection(p)]

\* race state.Start: spawnAll (welcomeAll and startTimers keep no state here).
race_Start(g, proto, ps) ==
    [g EXCEPT !.running = proto, !.players = ps, !.result = NoResult,
              !.race = [newRaceState EXCEPT !.unfinished = ps]]

\* race state.end
race_end(g, result) == [g EXCEPT !.running = "none", !.result = result]

\* race state.endSp
race_endSp(g) ==
    LET p == ExactlyOnePlayer(g.players)
    IN IF p \in g.race.finished /\ g.race.timeTaken[p] < g.bestTime
       THEN race_end([g EXCEPT !.bestTime = g.race.timeTaken[p]], SinglePlayerWin(PlayWorld, p))
       ELSE race_end(g, SinglePlayerLoss)

RECURSIVE SumPoints(_, _)
SumPoints(st, ps) ==
    IF ps = {} THEN 0
    ELSE LET p == CHOOSE q \in ps : TRUE IN st.points[p] + SumPoints(st, ps \ {p})

\* race state.calculatePoints: the point totals of teams 0 and 1.
race_calculatePoints(st, ps) ==
    [i \in TeamIdx |-> SumPoints(st, {p \in ps \cap st.finished : TeamOf(PlayWorld, p) = i})]

\* race state.endMp
race_endMp(g) ==
    LET t == race_calculatePoints(g.race, g.players)
    IN race_end(g, IF t[0] > t[1] THEN MultiplayerResult(0) ELSE MultiplayerResult(1))

\* race state.finishRace
race_finishRace(g) == IF Cardinality(g.players) = 1 THEN race_endSp(g) ELSE race_endMp(g)

\* race state.moveToFinishedState, at time now since the start.
race_moveToFinishedState(g, p, now) ==
    LET g1 == [g EXCEPT !.race.points[p] = Cardinality(g.race.unfinished),
                        !.race.timeTaken[p] = now,
                        !.race.unfinished = @ \ {p},
                        !.race.finished = @ \cup {p}]
    IN IF g1.race.unfinished = {} THEN race_finishRace(g1) ELSE g1

\* race state.increaseLapCount
race_increaseLapCount(g, p, now) ==
    IF p \notin g.race.unfinished THEN g
    ELSE IF g.race.laps[p] + 1 = totalLaps THEN race_moveToFinishedState(g, p, now)
    ELSE [g EXCEPT !.race.laps[p] = @ + 1]

\* race state.HandleDisconnection
race_HandleDisconnection(g, p) ==
    race_end(g, IF Cardinality(g.players) = 1
                THEN SinglePlayerDisconnection(p) ELSE MultiplayerDisconnection(PlayWorld, p))

\* The play of the race that g1 has just ended, for the record of the
\* single-player plays.
RacePlay(g, g1) ==
    IF g1.running # "none" THEN g.last
    ELSE LET p == CHOOSE q \in g.players : TRUE
         IN [game |-> "race", scored |-> p \in g1.race.finished,
             score |-> g1.race.timeTaken[p], before |-> g.bestTime]

\* The flags' stores as StoreCtor makes them, no game running.
PlayInit ==
    /\ Init!1 /\ Init!2 /\ Init!3 /\ Init!4 /\ Init!5 /\ Init!6 /\ Init!7
    /\ Init!8 /\ Init!9 /\ Init!10 /\ Init!11 /\ Init!12 /\ Init!13 /\ Init!14 /\ Init!15
    /\ minigames = [cps |-> 0, moles |-> 0, bestTime |-> timeout,
                    running |-> "none", players |-> {}, race |-> newRaceState,
                    result |-> NoResult, last |-> NoPlay]

\* click_race state.Handle for the cps_report of the only player: tryEnd, endSp.
CpsReport ==
    /\ minigames.running = "none"
    /\ \E clicks \in -1..MaxScore :
        minigames' = [cps_endSp(minigames, clicks) EXCEPT
                        !.last = [game |-> "cps", scored |-> TRUE, score |-> clicks,
                                  before |-> minigames.cps]]
    /\ UNCHANGED <<gameVars, events, loop, ftimer, calls, out, kill, writer, conn, codec>>

\* The function of the moles gameTimer, after score hits were registered.
MolesTimeUp ==
    /\ minigames.running = "none"
    /\ \E hits \in 0..MaxScore :
        minigames' = [moles_endNaturally(minigames, hits) EXCEPT
                        !.last = [game |-> "moles", scored |-> TRUE, score |-> hits,
                                  before |-> minigames.moles]]
    /\ UNCHANGED <<gameVars, events, loop, ftimer, calls, out, kill, writer, conn, codec>>

\* The player of a click_race or moles game disconnects.
SoloDisconnects ==
    /\ minigames.running = "none"
    /\ \E game \in {"cps", "moles"} :
        minigames' = [solo_HandleDisconnection(minigames, ExactlyOnePlayer(SoloPlayers)) EXCEPT
                        !.last = [game |-> game, scored |-> FALSE, score |-> 0,
                                  before |-> IF game = "cps" THEN minigames.cps
                                             ELSE minigames.moles]]
    /\ UNCHANGED <<gameVars, events, loop, ftimer, calls, out, kill, writer, conn, codec>>

\* The single-player race starts.
RaceStartSp ==
    /\ minigames.running = "none"
    /\ minigames' = [race_Start(minigames, "race_sp", SoloPlayers) EXCEPT !.last = NoPlay]
    /\ UNCHANGED <<gameVars, events, loop, ftimer, calls, out, kill, writer, conn, codec>>

\* The 2v2 race starts.
RaceStartMp ==
    /\ minigames.running = "none"
    /\ minigames' = [race_Start(minigames, "race_2v2", Racers) EXCEPT !.last = NoPlay]
    /\ UNCHANGED <<gameVars, events, loop, ftimer, calls, out, kill, writer, conn, codec>>

\* race state.Handle for a race_completed_lap of player p.
RaceLap ==
    /\ minigames.running # "none"
    /\ \E p \in minigames.players : \E now \in FinishTimes :
        LET g1 == race_increaseLapCount(minigames, p, now)
        IN minigames' = [g1 EXCEPT !.last = RacePlay(minigames, g1)]
    /\ UNCHANGED <<gameVars, events, loop, ftimer, calls, out, kill, writer, conn, codec>>

\* The function of the race timer: onTimeout.
RaceTimeout ==
    /\ minigames.running # "none"
    /\ LET g1 == race_finishRace(minigames)
       IN minigames' = [g1 EXCEPT !.last = RacePlay(minigames, g1)]
    /\ UNCHANGED <<gameVars, events, loop, ftimer, calls, out, kill, writer, conn, codec>>

\* A player of the race disconnects.
RaceDisconnects ==
    /\ minigames.running # "none"
    /\ \E p \in minigames.players :
        LET g1 == race_HandleDisconnection(minigames, p)
        IN minigames' = [g1 EXCEPT !.last = [RacePlay(minigames, g1) EXCEPT !.scored = FALSE]]
    /\ UNCHANGED <<gameVars, events, loop, ftimer, calls, out, kill, writer, conn, codec>>

SoloNext ==
    \/ CpsReport
    \/ MolesTimeUp
    \/ SoloDisconnects
    \/ RaceStartSp
    \/ RaceLap
    \/ RaceTimeout
    \/ RaceDisconnects

\* Plays of the three single-player threshold flags, in any order.
SoloSpec == PlayInit /\ [][SoloNext]_vars

RaceNext ==
    \/ RaceStartMp
    \/ RaceLap
    \/ RaceTimeout
    \/ RaceDisconnects

\* 2v2 races, one after the other.
RaceSpec == PlayInit /\ [][RaceNext]_vars

\* ------------------------------------------------------------------ claims
\* Client c is sent a message of the given type in the turn that ends in w.
Received(w, c, type) == \E m \in BagToSet(w.sent) : m.to = c /\ m.type = type

\* The turn that ends in w finalized the session of ship s: Ship.end ran to
\* its end, so every member of the lobby was sent ship_game_end and has the
\* lobby's activity.
Finalized(w, s) ==
    /\ Ok(w)
    /\ w.ships[s].ended
    /\ \A p \in LobbyPlayers(w, w.ships[s].lobby) :
        /\ Received(w, p, "ship_game_end")
        /\ w.players[p].Activity = LobbyAct(w.ships[s].lobby)

\* A session of ship s is in progress.
InSession(s) == ships[s] # NoShip /\ ~ships[s].ended

\* f is the only flag of ship s with a running minigame.
LastRunning(s, f) ==
    /\ ships[s].flags[f].minigame
    /\ \A g \in Flags \ {f} : ~ships[s].flags[g].minigame

\* The outcomes of the turn in which player p leaves in state w: a lobby_bye
\* of its own, or the synthetic one of killClient.
LeaveTurns(w, p) == MessageTurn(w, p, InMsg("lobby_bye"), NoCode) \cup killClient(w, p)

\* The state w at the start of the next turn.
NextTurn(w) == [w EXCEPT !.sent = EmptyBag]

\* C1: if the Ship is already in endgame and its last running minigame ends
\* with a non-disconnection result, the session is finalized in that turn
\* (ship_game_end sent, every player back in the lobby activity).
C1_EndgameMinigameEndFinalizes ==
    \A s \in ShipIds : \A f \in Flags :
        (halted = NotHalted /\ InSession(s) /\ ships[s].isEndgame /\ LastRunning(s, f))
        => \A r \in PlayedResults(Now, s, f) : \A w \in End(Now, s, f, r) : Finalized(w, s)

\* The case of C1: endgame was entered by a player who left the Ship before
\* the countdown expired, and a minigame is still running.
C1_Case ==
    \E s \in ShipIds : \E f \in Flags :
        /\ halted = NotHalted /\ InSession(s) /\ ships[s].isEndgame /\ LastRunning(s, f)
        /\ ~HasEnded(ships[s].timer)
        /\ ships[s].played < MaxPlayed

\* The countdown of ship s has expired with a minigame running, and its end
\* callback is the next scheduled function the main loop runs.
ExpiryWithMinigame(s) ==
    /\ halted = NotHalted /\ InSession(s) /\ ~ships[s].isEndgame
    /\ areAnyMinigamesOngoing(ships[s])
    /\ events # <<>> /\ Head(events) = [kind |-> "shipEnd", ship |-> s]

\* The turn of the end callback.
ExpiryTurn == handleEvent([Now EXCEPT !.events = Tail(@)], Head(events))

\* Every result the minigame of flag f can report in state w, played or
\* disconnection, finalizes the session of ship s in the turn that reports it.
ResultFinalizes(w, s, f) ==
    /\ \A r \in PlayedResults(w, s, f) : \A w2 \in End(w, s, f, r) : Finalized(w2, s)
    /\ \A p \in CtxPlayers(w, s, f) : \A w2 \in LeaveTurns(w, p) : Finalized(w2, s)

\* C2: when the countdown expires while a minigame is running, the expiry
\* callback's turn enters endgame without finalizing (no ship_game_end, nobody
\* moved), and the turn in which that minigame then reports its result
\* finalizes the session.
C2_ExpiryDefersThenResultFinalizes ==
    \A s \in ShipIds :
        ExpiryWithMinigame(s)
        => /\ Ok(ExpiryTurn)
           /\ ExpiryTurn.ships[s].isEndgame
           /\ ~ExpiryTurn.ships[s].ended
           /\ \A p \in Clients : ~Received(ExpiryTurn, p, "ship_game_end")
           /\ ExpiryTurn.players = players
           /\ \A f \in Flags :
                (/\ ExpiryTurn.ships[s].flags[f].minigame
                 /\ \A g \in Flags \ {f} : ~ExpiryTurn.ships[s].flags[g].minigame)
                => ResultFinalizes(NextTurn(ExpiryTurn), s, f)

\* The case of C2: the countdown has expired with exactly one minigame
\* running, and its end callback is about to run.
C2_Case ==
    \E s \in ShipIds : \E f \in Flags : ExpiryWithMinigame(s) /\ LastRunning(s, f)

\* C3: a finalized session has no flag with a running minigame: Ship.end only
\* runs in a state where no minigame of the Ship is running.
C3_EndOnlyWithoutMinigames ==
    \A s \in ShipIds :
        (ships[s] # NoShip /\ ships[s].ended) => ~areAnyMinigamesOngoing(ships[s])

\* The case of C3: endgame was deferred for a running minigame, and the turn
\* in which the minigame ends finalizes the session.
C3_Finalized ==
    \E s \in ShipIds : \E f \in Flags :
        /\ halted = NotHalted /\ InSession(s) /\ ships[s].isEndgame /\ LastRunning(s, f)
        /\ ships[s].played < MaxPlayed
        /\ \E r \in PlayedResults(Now, s, f) : \E w \in End(Now, s, f, r) :
            Finalized(w, s) /\ ~areAnyMinigamesOngoing(w.ships[s])

\* The flags whose activation has player p locked.
LockedFlags(sh, p) ==
    {f \in Flags : isActivated(sh.flags[f]) /\ p \in sh.flags[f].activation.lockedPlayers}

\* C4: at every turn boundary each player is locked to at most one flag.
C4_LockedToAtMostOneFlag ==
    \A s \in ShipIds : ships[s] # NoShip =>
        \A p \in Clients : Cardinality(LockedFlags(ships[s], p)) <= 1

\* The case of C4: a player locked to a recruiting flag asks to activate
\* another flag within reach, and is refused with ship_player_locked.
C4_LockedPlayerRefused ==
    \E s \in ShipIds : \E p \in Clients : \E f \in Flags :
        /\ halted = NotHalted /\ InSession(s)
        /\ LockedFlags(ships[s], p) # {} /\ f \notin LockedFlags(ships[s], p)
        /\ players[p] # NoPlayer /\ players[p].Activity = ShipAct(s)
        /\ MessageTurn(Now, p, [InMsg("ship_flag_activate") EXCEPT !.pos = FlagPos(f)], NoCode)
             = {Send(Now, p, "ship_player_locked")}

\* How many of the three states a flag shows: recruiting, minigame running,
\* cooling down with time remaining.
FlagStates(fl) ==
    (IF isActivated(fl) THEN 1 ELSE 0) + (IF fl.minigame THEN 1 ELSE 0)
        + (IF ~HasEnded(fl.cooldown) THEN 1 ELSE 0)

\* C5: at every turn boundary every flag has at most one of an Activation, a
\* running minigame and an active cooldown.
C5_FlagStatesExclusive ==
    \A s \in ShipIds : ships[s] # NoShip =>
        \A f \in Flags : FlagStates(ships[s].flags[f]) <= 1

\* The case of C5: a flag is cooling down after a minigame, a player of the
\* team that does not own it asks to activate it and is refused, while another
\* flag of the Ship has a running minigame.
C5_CoolingFlagRefused ==
    \E s \in ShipIds : \E p \in Clients : \E f \in Flags :
        /\ halted = NotHalted /\ InSession(s)
        /\ ~HasEnded(ships[s].flags[f].cooldown)
        /\ players[p] # NoPlayer /\ players[p].Activity = ShipAct(s)
        /\ MessageTurn(Now, p, [InMsg("ship_flag_activate") EXCEPT !.pos = FlagPos(f)], NoCode)
             = {SendFlag(Now, p, "ship_flag_cooling_down", f)}
        /\ \E g \in Flags : ships[s].flags[g].minigame

\* Player c's Activity is the LobbyActivity of c's own lobby, that lobby's
\* Ship in session, or the context of a running minigame of that Ship.
ValidActivity(c) ==
    LET L == players[c].Team.lobby
        act == players[c].Activity
    IN \/ act = LobbyAct(L)
       \/ \E s \in ShipIds :
            /\ InSession(s) /\ ships[s].lobby = L
            /\ \/ act = ShipAct(s)
               \/ \E f \in Flags : ships[s].flags[f].minigame /\ act = MinigameAct(s, f)

\* C6: at every turn boundary the Activity of every member of a lobby is that
\* lobby's LobbyActivity, its current Ship or a valid context of a running
\* minigame of that Ship.
C6_ActivityOfOwnLobby ==
    \A c \in Clients : players[c] # NoPlayer => ValidActivity(c)

\* C7: at every turn boundary every lobby registered in the LobbyManager has
\* at least one player.
C7_RegisteredLobbyNotEmpty ==
    \A code \in LobbyCodes :
        activities[code] # NoLobby => PlayerCount(Now, activities[code]) >= 1

\* The case of C7: a client that already has a player sends lobby_create.
C7_Case ==
    \E c \in Clients :
        /\ halted = NotHalted /\ players[c] # NoPlayer /\ FreeLobbies(Now) # {}
        /\ \A code \in LobbyCodes : activities[code] # NoLobby => activities[code] = PlayerLobby(Now, c)

\* Player p is in the Ship s, whose session is in progress with no minigame
\* running.
InShipNoMinigame(s, p) ==
    /\ halted = NotHalted /\ InSession(s)
    /\ ~areAnyMinigamesOngoing(ships[s])
    /\ players[p] # NoPlayer /\ players[p].Activity = ShipAct(s)

\* C8: when a player leaves (disconnection or lobby_bye) while in the Ship
\* with no minigame running, that turn enters endgame and finalizes: every
\* remaining member is sent ship_game_end and is back in the lobby activity.
C8_LeaveFinalizesInTurn ==
    \A s \in ShipIds : \A p \in Clients :
        InShipNoMinigame(s, p)
        => \A w \in LeaveTurns(Now, p) :
            Ok(w) /\ w.ships[s].isEndgame /\ Finalized(w, s)

\* The case of C8: the leaving player has a peer in the Ship.
C8_Case ==
    \E s \in ShipIds : \E p, q \in Clients :
        /\ InShipNoMinigame(s, p) /\ ~ships[s].isEndgame
        /\ q # p /\ players[q] # NoPlayer /\ players[q].Activity = ShipAct(s)

\* Player p is in the Ship s and no flag of s has been activated since the
\* session started: no minigame has run.
InShipNoneRun(s, p) == InShipNoMinigame(s, p) /\ ships[s].clock = 0

\* The ship_game_end messages of the turn that ends in w.
GameEnds(w) == {m \in BagToSet(w.sent) : m.type = "ship_game_end"}

\* C9 as claimed: when a player leaves the Ship with no minigame having run,
\* the ship_game_end of that turn gives the opposing team the higher team
\* score.
C9_OpposingTeamDeclaredWinner ==
    \A s \in ShipIds : \A p \in Clients :
        InShipNoneRun(s, p)
        => \A w \in LeaveTurns(Now, p) : \A m \in GameEnds(w) :
            m.team_scores[2 - TeamOf(Now, p)] > m.team_scores[1 + TeamOf(Now, p)]

\* C9 amended: when a player leaves the Ship with no minigame having run, the
\* ship_game_end of that turn carries the team scores 0 and 0, the score 0 of
\* every remaining member and no score of the leaver: no team is the winner.
C9_NoWinnerDeclared ==
    \A s \in ShipIds : \A p \in Clients :
        InShipNoneRun(s, p)
        => \A w \in LeaveTurns(Now, p) : \A m \in GameEnds(w) :
            /\ m.team_scores = <<0, 0>>
            /\ m.individual_scores[p] = NoScore
            /\ \A q \in LobbyPlayers(w, ships[s].lobby) : m.individual_scores[q] = 0

\* The case of C9: the leaver has a peer, who is sent ship_game_end.
C9_PeerToldGameEnd ==
    \E s \in ShipIds : \E p, q \in Clients :
        /\ InShipNoneRun(s, p) /\ q # p
        /\ \E w \in LeaveTurns(Now, p) : \E m \in GameEnds(w) : m.to = q

\* In endgame nothing recruits: no flag has an Activation, every
\* ship_flag_activate of a Ship player is answered ship_no_flags_in_endgame
\* and changes nothing, and addPlayersToFlags changes nothing.
EndgameRefuses ==
    \A s \in ShipIds :
        (halted = NotHalted /\ InSession(s) /\ ships[s].isEndgame)
        => /\ \A f \in Flags : ~isActivated(ships[s].flags[f])
           /\ \A p \in ShipPlayers(Now, s) : \A pos \in Positions :
                MessageTurn(Now, p, [InMsg("ship_flag_activate") EXCEPT !.pos = pos], NoCode)
                    = {Send(Now, p, "ship_no_flags_in_endgame")}
           /\ addPlayersToFlags(Now, s) = {Now}

\* No step starts a minigame or creates an Activation in a Ship in endgame.
EndgameStartsNothing ==
    \A s \in ShipIds :
        (ships[s] # NoShip /\ ships'[s] # NoShip /\ ships[s].isEndgame)
        => \A f \in Flags :
            /\ ships'[s].flags[f].minigame => ships[s].flags[f].minigame
            /\ ~isActivated(ships'[s].flags[f])

\* C10: once a Ship is in endgame no flag gains an Activation and no minigame
\* starts: ship_flag_activate is refused and addPlayersToFlags locks nobody.
C10_NothingStartsInEndgame == []EndgameRefuses /\ [][EndgameStartsNothing]_vars

\* The case of C10: in endgame, with the session waiting for a minigame, a
\* player in the Ship stands at a flag that is free and not its team's.
C10_Case ==
    \E s \in ShipIds : \E p \in Clients : \E f \in Flags :
        /\ halted = NotHalted /\ InSession(s) /\ ships[s].isEndgame
        /\ p \in ShipPlayers(Now, s)
        /\ ~ships[s].flags[f].minigame /\ HasEnded(ships[s].flags[f].cooldown)
        /\ ships[s].flags[f].owner # TeamOf(Now, p)

\* P holds of the outcome of every turn the main loop can take in the current
\* state: an inbound message, a kill notice, the next scheduled function, a
\* minigame's own end, a cooldown timer's function.
EveryTurn(P(_)) ==
    halted = NotHalted
    => /\ \A c \in Clients : \A m \in Messages(Now, c) :
            WithinBounds(Now, c, m)
            => \A code \in IF m.type = "lobby_create" THEN LobbyCodes ELSE {NoCode} :
                \A w \in MessageTurn(Now, c, m, code) : P(w)
       /\ \A c \in Clients : \A w \in killClient(Now, c) : P(w)
       /\ events # <<>> => P(handleEvent([Now EXCEPT !.events = Tail(@)], Head(events)))
       /\ \A s \in ShipIds : ships[s] # NoShip =>
            \A f \in Flags :
                /\ (ships[s].flags[f].minigame /\ ships[s].played < MaxPlayed) =>
                        \A r \in PlayedResults(Now, s, f) : \A w \in End(Now, s, f, r) : P(w)
                /\ ships[s].flags[f].cooldown.live => P(notifyCooldownTick(Now, s, f))

\* P holds of the outcome of some turn in which a player leaves or the next
\* scheduled function runs.
SomeLeaveOrEventTurn(P(_)) ==
    /\ halted = NotHalted
    /\ \/ \E c \in Clients : players[c] # NoPlayer /\ \E w \in LeaveTurns(Now, c) : P(w)
       \/ events # <<>> /\ P(handleEvent([Now EXCEPT !.events = Tail(@)], Head(events)))

\* The turn from the current state to w is the one in which ship s enters
\* endgame.
EntersEndgame(w, s) == InSession(s) /\ ~ships[s].isEndgame /\ w.ships[s].isEndgame

\* Endgame was entered as Ship.enterEndgame says: no flag of ship s has an
\* Activation, and the turn enqueued one ship_endgame for each member of the
\* lobby and no other.
EndgameEntered(w, s) ==
    /\ \A f \in Flags : ~isActivated(w.ships[s].flags[f])
    /\ \A p \in LobbyPlayers(w, w.ships[s].lobby) : CopiesIn(Msg(p, "ship_endgame"), w.sent) = 1
    /\ \A m \in BagToSet(w.sent) : m.type = "ship_endgame" => CopiesIn(m, w.sent) = 1

\* C11: in the turn in which a Ship first enters endgame every flag's
\* Activation is cleared and exactly one ship_endgame is enqueued for every
\* member the lobby then has, the members inside a minigame included.
C11_EndgameEntryClearsAndNotifies ==
    EveryTurn(LAMBDA w : \A s \in ShipIds : EntersEndgame(w, s) => EndgameEntered(w, s))

\* The case of C11: a flag is recruiting with a player locked to it, a member
\* is inside a minigame, and a turn enters endgame and notifies that member.
C11_Case ==
    \E s \in ShipIds : \E f \in Flags : \E p \in Clients :
        /\ InSession(s) /\ isActivated(ships[s].flags[f])
        /\ ships[s].flags[f].activation.lockedPlayers # {}
        /\ players[p] # NoPlayer /\ players[p].Activity.kind = "minigame"
        /\ SomeLeaveOrEventTurn(LAMBDA w :
                /\ EntersEndgame(w, s)
                /\ p \in LobbyPlayers(w, ships[s].lobby)
                /\ CopiesIn(Msg(p, "ship_endgame"), w.sent) = 1)

\* The flag, lock and timer state of ship s in w, and the ship_endgame notices
\* of the turn that ends in w.
EndgameState(w, s) ==
    [isEndgame |-> w.ships[s].isEndgame, timer |-> w.ships[s].timer,
     flags |-> [f \in Flags |-> [activation |-> w.ships[s].flags[f].activation,
                                 cooldown |-> w.ships[s].flags[f].cooldown]],
     notices |-> {m \in BagToSet(w.sent) : m.type = "ship_endgame"}]

\* C12: triggering endgame on a Ship that is already in endgame sends no
\* ship_endgame, changes no Activation, cooldown or ship timer, and is
\* otherwise just the attempt to finalize (Ship.tryEnd); no turn taken in
\* endgame sends a member a second ship_endgame.
C12_EndgameEntryIdempotent ==
    \A s \in ShipIds :
        (halted = NotHalted /\ InSession(s) /\ ships[s].isEndgame)
        => /\ \A leaver \in {0} \cup LobbyPlayers(Now, ships[s].lobby) :
                LET w == triggerEndgame(Now, s, leaver)
                IN /\ EndgameState(w, s) = EndgameState(Now, s)
                   /\ w = tryEnd(IF leaver # 0 THEN notifyPeerLeft(Now, s, leaver) ELSE Now, s)
           /\ EveryTurn(LAMBDA w :
                /\ \A p \in LobbyPlayers(Now, ships[s].lobby) : ~Received(w, p, "ship_endgame")
                /\ w.ships[s].isEndgame
                /\ w.ships[s].timer = ships[s].timer
                /\ \A f \in Flags : ~isActivated(w.ships[s].flags[f]))

\* The case of C12: a Ship in endgame waits for a minigame, and a player in
\* the Ship leaves, which triggers endgame again without finalizing.
C12_Case ==
    \E s \in ShipIds : \E p \in Clients :
        /\ halted = NotHalted /\ InSession(s) /\ ships[s].isEndgame
        /\ areAnyMinigamesOngoing(ships[s])
        /\ p \in ShipPlayers(Now, s)
        /\ \E w \in LeaveTurns(Now, p) : Ok(w) /\ ~w.ships[s].ended

\* Stop was called on the countdown timer of ship s before its end time, and
\* that time has not passed yet.
StoppedEarly(s) ==
    ships[s] # NoShip /\ ships[s].timer.running /\ ~ships[s].timer.live

\* A function the stopped timer of ship s scheduled before Stop was called is
\* the next the main loop runs, and running it sends nothing and changes
\* nothing.
InFlightCallbackInert ==
    \A s \in ShipIds :
        (halted = NotHalted /\ StoppedEarly(s) /\ events # <<>> /\ Head(events).ship = s)
        => ExpiryTurn = [Now EXCEPT !.events = Tail(@)]

\* No step schedules a function of a timer that has been stopped.
NoCallbackAfterStop ==
    \A s \in ShipIds :
        (ships[s] # NoShip /\ ~ships[s].timer.live /\ ships'[s] # NoShip /\ ~ships'[s].timer.live)
        => \A i \in 1..Len(events') :
            events'[i].ship = s => \E j \in 1..Len(events) : events[j] = events'[i]

\* C14: after Stop on a timer that has not expired no function of the timer
\* takes effect: none is scheduled any more, and one that was already
\* scheduled sends nothing and changes nothing when the main loop runs it.
C14_StoppedTimerCallbacksInert == []InFlightCallbackInert /\ [][NoCallbackAfterStop]_vars

\* The case of C14: a tick of the countdown is scheduled, the timer was
\* stopped before its end time, and a player is in the Ship.
C14_Case ==
    \E s \in ShipIds :
        /\ halted = NotHalted /\ StoppedEarly(s)
        /\ events # <<>> /\ Head(events) = ShipEvent("shipTick", s)
        /\ ShipPlayers(Now, s) # {}

\* A call of Stop that follows a call of Stop on the same timer does not go
\* to the send on quit: it returns.
SecondStopReturns == loop.pc = "stop" => ~ftimer.stopped

\* A call of Stop made after the timer's End has passed returns at once.
StopAfterExpiryReturns ==
    (loop.pc = "run" /\ ftimer # NoTimer /\ ~ftimer.running) => loop'.pc # "stop"

\* C13: FunctionTimer.Stop is idempotent: a second call made before the end
\* time returns and changes nothing, and so does a call made after expiry.
C13_StopIdempotent == []SecondStopReturns /\ [][StopAfterExpiryReturns]_vars

\* The case of C13: the timer was stopped before its End, which has not passed,
\* and a handler is running that may call Stop again.
C13_Case ==
    /\ loop.pc = "run" /\ ftimer.stopped /\ ftimer.running
    /\ ftimer.kind = "single"

\* C15: no function of a timer is executed by a timer goroutine: whatever is
\* executed is executed by the main loop, one item at a time, so a timer
\* function never overlaps the handling of a message, a kill notice or
\* another timer function.
C15_CallbacksOnlyOnMainLoop ==
    /\ \A c \in calls : c.by = "main" /\ loop.pc # "select" /\ c.what = loop.item
    /\ Cardinality(calls) <= 1

\* The case of C15: the main loop is executing a tick function while the
\* timer's goroutine is in Scheduler.Add with the next one.
C15_Case ==
    /\ loop = [pc |-> "run", item |-> "tick"]
    /\ calls = {[by |-> "main", what |-> "tick"]}
    /\ ftimer.ticker = "addFn"

\* C16: a call of Client.Send made by the main loop never waits: there is
\* room in hub.out whenever the main loop is at its send on the channel.
C16_SendNeverBlocks == loop.pc = "send" => out < outCap

\* The case of C16: the main loop is in Client.Send, hub.out is full and the
\* outbound writer is in a socket write.
C16_Case == loop.pc = "send" /\ out = outCap /\ writer = "write"

\* MinigameContext.End ran to completion on the context of flag f in the turn
\* that leads to w.
EndCompleted(w, s, f) ==
    InSession(s) /\ ships[s].flags[f].minigame /\ Ok(w) /\ ~w.ships[s].flags[f].minigame

\* The participants of the context of flag f that are still connected in w.
ConnectedParticipants(w, s, f) == {p \in CtxPlayers(Now, s, f) : w.players[p] # NoPlayer}

\* What the implementation behind flag f can pass to MinigameContext.End.
ContextResults(s, f) ==
    PlayedResults(Now, s, f) \cup {DisconnectionResult(Now, f, p) : p \in CtxPlayers(Now, s, f)}

\* A call of End or HandleMessage made in w on the context of flag f stops at
\* ensureValid: it panics and leaves the state w as it is.
FailsFast(w, s, f) ==
    LET stopped == {Panic(w, "panic: minigame context method called on invalid context")}
    IN /\ \A r \in ContextResults(s, f) : End(w, s, f, r) = stopped
       /\ \A p \in CtxPlayers(Now, s, f) : \A m \in Messages(Now, p) :
            MinigameHandleMessage(w, s, f, p, m) = stopped

\* C17: after MinigameContext.End has completed the flag's minigame is
\* cleared, every connected participant's activity is the Ship, and a later
\* call on the context stops at the fail-fast check without changing state.
C17_EndInvalidatesContext ==
    EveryTurn(LAMBDA w : \A s \in ShipIds : \A f \in Flags :
        EndCompleted(w, s, f)
        => /\ FailsFast(w, s, f)
           /\ \A p \in ConnectedParticipants(w, s, f) : w.players[p].Activity = ShipAct(s))

\* The participant has left the context of flag f: End moved them to the
\* Ship, and they are still there unless the same call of End went on to
\* finalize the session (everyone is back in the lobby) or addPlayersToFlags
\* put them into the minigame of another flag.
HasLeftContext(w, s, f, p) ==
    \/ w.players[p].Activity = ShipAct(s)
    \/ w.ships[s].ended /\ w.players[p].Activity.kind = "lobby"
    \/ /\ w.players[p].Activity.kind = "minigame"
       /\ w.players[p].Activity.ship = s
       /\ w.players[p].Activity.flag # f
       /\ w.ships[s].flags[w.players[p].Activity.flag].minigame
       /\ ~ships[s].flags[w.players[p].Activity.flag].minigame

\* C17, amended: after MinigameContext.End has completed the flag's minigame
\* is cleared, no connected participant is in the context any more, and a
\* later call on the context stops at the fail-fast check without changing
\* state.
C17_EndVacatesAndInvalidatesContext ==
    EveryTurn(LAMBDA w : \A s \in ShipIds : \A f \in Flags :
        EndCompleted(w, s, f)
        => /\ FailsFast(w, s, f)
           /\ \A p \in ConnectedParticipants(w, s, f) : HasLeftContext(w, s, f, p))

\* The case of C17: a minigame is played to its end, and the same call of End
\* puts its participant into the minigame of a flag that was waiting for a
\* player.
C17_Case ==
    /\ halted = NotHalted
    /\ \E s \in ShipIds : \E f \in Flags : \E p \in Clients :
        /\ InSession(s) /\ ships[s].played < MaxPlayed
        /\ p \in CtxPlayers(Now, s, f)
        /\ \E r \in PlayedResults(Now, s, f) : \E w \in End(Now, s, f, r) :
            /\ EndCompleted(w, s, f)
            /\ p \in ConnectedParticipants(w, s, f)
            /\ w.players[p].Activity.kind = "minigame"
            /\ FailsFast(w, s, f)

\* Every outcome w of every dispatch turn of a session of four, with the
\* client c whose message the turn handles (0 for a scheduled function).
EveryCrewTurn(P(_, _)) ==
    halted = NotHalted
    => /\ \A c \in Clients : \A m \in Messages(Now, c) :
            (m.type \in CrewTypes /\ WithinBounds(Now, c, m))
            => \A w \in MessageTurn(Now, c, m, NoCode) : P(w, c)
       /\ \A s \in ShipIds : ships[s] # NoShip =>
            \A f \in Flags :
                (ships[s].flags[f].minigame /\ ships[s].played < MaxPlayed)
                => \A r \in PlayedResults(Now, s, f) : \A w \in End(Now, s, f, r) : P(w, 0)

\* The players in the Ship that are locked to no flag.
UnlockedShipPlayers(w, s) == {p \in ShipPlayers(w, s) : flagForPlayer(w.ships[s], p) = NoFlag}

\* The activating flags that need a player of p's team.
FlagsNeeding(w, s, p) ==
    {f \in Flags : /\ isActivated(w.ships[s].flags[f])
                   /\ needsPlayer(w, w.ships[s].flags[f], f, p)}

\* C18: outside endgame, a dispatch turn (and so one in which
\* addPlayersToFlags ran) leaves no unlocked player in the Ship whom an
\* activating flag still needs.
C18_NoNeededPlayerLeftUnlocked ==
    EveryCrewTurn(LAMBDA w, c : \A s \in ShipIds :
        (InSession(s) /\ Ok(w) /\ ~w.ships[s].ended /\ ~w.ships[s].isEndgame)
        => \A p \in UnlockedShipPlayers(w, s) : FlagsNeeding(w, s, p) = {})

\* The case of C18: a minigame is running, and a player activates a two-player
\* flag while two players of the other team are unlocked in the Ship: the
\* pass locks one of them and leaves the other.
C18_Case ==
    /\ halted = NotHalted
    /\ \E s \in ShipIds : \E c, p, q \in Clients :
        /\ InSession(s) /\ ~ships[s].isEndgame
        /\ {c, p, q} \subseteq UnlockedShipPlayers(Now, s)
        /\ \E f \in Flags : ships[s].flags[f].minigame
        /\ p # q /\ TeamOf(Now, p) = TeamOf(Now, q) /\ TeamOf(Now, p) # TeamOf(Now, c)
        /\ \E w \in MessageTurn(Now, c, [InMsg("ship_flag_activate") EXCEPT !.pos = FlagPos("blah")], NoCode) :
            /\ Ok(w) /\ w.ships[s].flags["blah"].minigame
            /\ p \in CtxPlayers(w, s, "blah")
            /\ q \in UnlockedShipPlayers(w, s)

\* The flags that are activating when the pass of the turn begins: those
\* activating before the turn, and the one the turn's message activated.
ActivatingAtPass(w, s) ==
    {g \in Flags :
        \/ isActivated(ships[s].flags[g])
        \/ /\ ~ships[s].flags[g].minigame
           /\ isActivated(w.ships[s].flags[g]) \/ w.ships[s].flags[g].minigame}

\* The players locked to such a flag when the pass begins: c is the player
\* whose message activated it.
LockedAtPass(s, g, c) ==
    IF isActivated(ships[s].flags[g]) THEN ships[s].flags[g].activation.lockedPlayers ELSE {c}

StartAtPass(s, g) ==
    IF isActivated(ships[s].flags[g]) THEN ships[s].flags[g].activation.startTime
    ELSE ships[s].clock

NeededAtPass(s, g, c, p) ==
    Cardinality({pl \in LockedAtPass(s, g, c) : TeamOf(Now, pl) = TeamOf(Now, p)}) < TeamSize(g)

\* The players the pass of the turn locked to flag g (which may have started
\* its minigame with them in the same pass).
LockedByPass(w, s, g, c) ==
    (IF isActivated(w.ships[s].flags[g]) THEN w.ships[s].flags[g].activation.lockedPlayers
     ELSE IF w.ships[s].flags[g].minigame /\ ~ships[s].flags[g].minigame
     THEN CtxPlayers(w, s, g) ELSE {})
    \ LockedAtPass(s, g, c)

\* C19: the flag addPlayersToFlags locks a player to is, of the activating
\* flags that need a player of that team when the pass begins, the one with
\* the earliest start time.
C19_LockedToOldestNeedingFlag ==
    EveryCrewTurn(LAMBDA w, c : \A s \in ShipIds :
        (InSession(s) /\ Ok(w))
        => \A g \in ActivatingAtPass(w, s) : \A p \in LockedByPass(w, s, g, c) :
            /\ NeededAtPass(s, g, c, p)
            /\ \A h \in ActivatingAtPass(w, s) :
                NeededAtPass(s, h, c, p) => StartAtPass(s, g) <= StartAtPass(s, h))

\* The case of C19: two flags are recruiting for the same team, and a player
\* of that team comes back from a minigame: the pass locks them to the older
\* flag.
C19_Case ==
    /\ halted = NotHalted
    /\ \E s \in ShipIds : \E f, g, h \in Flags : \E p \in Clients :
        /\ InSession(s) /\ ships[s].played < MaxPlayed
        /\ p \in CtxPlayers(Now, s, f)
        /\ g # h /\ {g, h} \subseteq FlagsNeeding(Now, s, p)
        /\ StartAtPass(s, g) < StartAtPass(s, h)
        /\ \E r \in PlayedResults(Now, s, f) : \E w \in End(Now, s, f, r) :
            Ok(w) /\ p \in LockedByPass(w, s, g, 0)

\* No activating flag has all its players, or more players of a team than
\* the team's size.
ActivationsWithinSize ==
    \A s \in ShipIds : InSession(s) =>
        \A f \in Flags : isActivated(ships[s].flags[f]) =>
            /\ ~hasAllPlayers(ships[s].flags[f], f)
            /\ \A t \in TeamIdx :
                Cardinality({p \in ships[s].flags[f].activation.lockedPlayers :
                                TeamOf(Now, p) = t}) <= TeamSize(f)

\* The multiplayer minigames the turn started have TeamSize players of each team.
StartsWithFullTeams(w) ==
    \A s \in ShipIds : \A f \in Flags :
        (/\ InSession(s) /\ Ok(w)
         /\ MinigamePrototype(f).PlayerCount > 1
         /\ ~ships[s].flags[f].minigame /\ w.ships[s].flags[f].minigame)
        => \A t \in TeamIdx :
            Cardinality({p \in CtxPlayers(w, s, f) : TeamOf(w, p) = t}) = TeamSize(f)

\* C20: between dispatch turns no activating flag holds PlayerCount locked
\* players or more than TeamSize of one team, and a multiplayer minigame
\* starts with exactly TeamSize participants of each team.
C20_FlagsStartWhenComplete ==
    /\ ActivationsWithinSize
    /\ EveryCrewTurn(LAMBDA w, c : StartsWithFullTeams(w))

\* The case of C20: a two-player minigame is running with one player of each
\* team while another two-player flag waits with one locked player.
C20_Case ==
    \E s \in ShipIds : \E f, g \in Flags :
        /\ InSession(s) /\ f # g
        /\ MinigamePrototype(f).PlayerCount = 2 /\ ships[s].flags[f].minigame
        /\ \A t \in TeamIdx : Cardinality({p \in CtxPlayers(Now, s, f) : TeamOf(Now, p) = t}) = 1
        /\ MinigamePrototype(g).PlayerCount = 2 /\ isActivated(ships[s].flags[g])
        /\ Cardinality(ships[s].flags[g].activation.lockedPlayers) = 1

\* The owner of every flag of the ship but f is in w what it is now.
OtherOwnersKept(w, s, f) ==
    \A g \in Flags \ {f} : w.ships[s].flags[g].owner = ships[s].flags[g].owner

\* A flag's owner changes in a turn only if the flag's minigame ended in it.
OwnerChangesOnlyAtEnd ==
    EveryTurn(LAMBDA w : \A s \in ShipIds : \A f \in Flags :
        (InSession(s) /\ Ok(w) /\ w.ships[s].flags[f].owner # ships[s].flags[f].owner)
        => ships[s].flags[f].minigame /\ ~w.ships[s].flags[f].minigame)

\* MinigameContext.End with result r gives the flag to r's winning team, and
\* leaves the owner alone when r has none.
EndSetsOwner(s, f, r) ==
    \A w \in End(Now, s, f, r) :
        Ok(w) => /\ w.ships[s].flags[f].owner =
                        IF r.winningTeam # NoOwner THEN r.winningTeam
                        ELSE ships[s].flags[f].owner
                 /\ OtherOwnersKept(w, s, f)

\* C21: a flag's owner changes only when a minigame of that flag ends with a
\* winning team, and becomes that team; an end without a winning team and
\* every other operation leave the owners as they are.
C21_OwnerChangesOnlyByWinningEnd ==
    /\ OwnerChangesOnlyAtEnd
    /\ \A s \in ShipIds : \A f \in Flags :
        (halted = NotHalted /\ InSession(s) /\ ships[s].flags[f].minigame)
        => /\ \A p \in CtxPlayers(Now, s, f) : EndSetsOwner(s, f, DisconnectionResult(Now, f, p))
           /\ ships[s].played < MaxPlayed
                => \A r \in PlayedResults(Now, s, f) : EndSetsOwner(s, f, r)

\* The case of C21: a flag that a team owns is played again, and its
\* single player disconnects: the flag keeps its owner.
C21_Case ==
    /\ halted = NotHalted
    /\ \E s \in ShipIds : \E f \in Flags : \E p \in Clients :
        /\ InSession(s) /\ ships[s].flags[f].minigame
        /\ ships[s].flags[f].owner # NoOwner
        /\ MinigamePrototype(f).PlayerCount = 1
        /\ p \in CtxPlayers(Now, s, f)
        /\ \E w \in End(Now, s, f, DisconnectionResult(Now, f, p)) :
            Ok(w) /\ w.ships[s].flags[f].owner = ships[s].flags[f].owner

\* What a winning participant of f's minigame earns: the worth of a
\* single-player minigame, the worth divided by the team size otherwise.
WinnerShare(f) ==
    IF MinigamePrototype(f).PlayerCount = 1
    THEN MinigamePrototype(f).Worth
    ELSE MinigamePrototype(f).Worth \div TeamSize(f)

\* MinigameContext.End with result r adds WinnerShare to the score of the
\* connected participants who are on r's winning team, and to no other score.
EndAwardsWinners(s, f, r) ==
    \A w \in End(Now, s, f, r) : \A p \in Clients \ {r.disconnected} :
        Ok(w) => w.ships[s].individualScores[p] =
                    ships[s].individualScores[p] +
                    (IF /\ r.winningTeam # NoOwner
                        /\ p \in CtxPlayers(Now, s, f)
                        /\ TeamOf(Now, p) = r.winningTeam
                     THEN WinnerShare(f) ELSE 0)

\* C22: a minigame that ends with winning team W adds the worth (single
\* player) or the worth divided by the team size (teams) to the individual
\* score of each still-connected participant on W and changes no other
\* score; an end without winning team changes no individual score.
C22_WinnersGetIndividualWorth ==
    \A s \in ShipIds : \A f \in Flags :
        (halted = NotHalted /\ InSession(s) /\ ships[s].flags[f].minigame)
        => /\ \A p \in CtxPlayers(Now, s, f) :
                EndAwardsWinners(s, f, DisconnectionResult(Now, f, p))
           /\ ships[s].played < MaxPlayed
                => \A r \in PlayedResults(Now, s, f) : EndAwardsWinners(s, f, r)

\* The case of C22: a 1v1 minigame is won by a team, and the end adds the
\* share to the winner's score while the loser's score stays.
C22_Case ==
    /\ halted = NotHalted
    /\ \E s \in ShipIds : \E f \in Flags :
        /\ InSession(s) /\ ships[s].flags[f].minigame
        /\ MinigamePrototype(f).PlayerCount = 2
        /\ ships[s].played < MaxPlayed
        /\ \E r \in PlayedResults(Now, s, f) : \E w \in End(Now, s, f, r) :
            /\ Ok(w) /\ r.winningTeam # NoOwner
            /\ \E p, q \in CtxPlayers(Now, s, f) :
                /\ w.ships[s].individualScores[p] =
                        ships[s].individualScores[p] + WinnerShare(f)
                /\ w.ships[s].individualScores[q] = ships[s].individualScores[q]
                /\ p # q

\* Nothing in w refers to player p any more: no team, no ready set, no
\* Activation, no score (and so no position) entry, and no client link.
Forgotten(w, p) ==
    /\ w.players[p] = NoPlayer
    /\ \A L \in Lobbies :
        /\ \A i \in TeamIdx : p \notin w.lobbies[L].Teams[i]
        /\ p \notin w.readyPlayers[L]
    /\ \A s \in ShipIds : w.ships[s] # NoShip =>
        /\ w.ships[s].individualScores[p] = NoScore
        /\ \A f \in Flags : isActivated(w.ships[s].flags[f])
                            => p \notin w.ships[s].flags[f].activation.lockedPlayers

TeamsWith(c) ==
    {t \in Lobbies \X TeamIdx : c \in lobbies[t[1]].Teams[t[2]]}

\* C24: every player with a live client link is in the member set of exactly
\* one team, and player.Team is that team, whatever joins, team changes and
\* leaves came before.
C24_ExactlyOneTeam ==
    \A c \in Clients : players[c] # NoPlayer
        => TeamsWith(c) = {<<players[c].Team.lobby, players[c].Team.index>>}

\* The case of C24: a lobby whose members are all on team 1, which only a
\* team change or a leave after the joins brings about.
C24_Case ==
    /\ halted = NotHalted
    /\ \E L \in Lobbies : \E c \in Clients :
        /\ lobbies[L].Teams[0] = {}
        /\ c \in lobbies[L].Teams[1]
        /\ players[c] # NoPlayer
        /\ players[c].Team = [lobby |-> L, index |-> 1]

\* The lobby_create turns of the current state: the client, the code
\* randomLobbyCode draws and the outcome.
CreateTurns ==
    {t \in Clients \X LobbyCodes :
        InMsg("lobby_create") \in Messages(Now, t[1])
        /\ WithinBounds(Now, t[1], InMsg("lobby_create"))}

\* C25: a lobby that createLobby creates gets an ID that no lobby registered
\* in the manager has, so every registered lobby keeps its activity.
C25_NewLobbyIDIsFresh ==
    halted = NotHalted
    => \A t \in CreateTurns :
        \A w \in MessageTurn(Now, t[1], InMsg("lobby_create"), t[2]) :
            \A code \in LobbyCodes :
                activities[code] # NoLobby
                => /\ t[2] # code
                   /\ w.activities[code] = activities[code]

\* The case of C25: a lobby with a member is registered when a client creates
\* another lobby.
C25_Case ==
    /\ halted = NotHalted
    /\ \E t \in CreateTurns : \E code \in LobbyCodes :
        /\ activities[code] # NoLobby
        /\ LobbyPlayers(Now, activities[code]) # {}
        /\ players[t[1]] = NoPlayer

\* Messages that no handler recognises or whose fields fail validation.
InvalidMessages ==
    {InMsg("lobby_join"), InMsg("lobby_team_change"), InMsg("lobby_ready_change"),
     InMsg("no_such_type"), InMsg("ship_mov_teleport")}
    \cup {[InMsg("ship_mov_position_update") EXCEPT !.xy = b] : b \in {"bad_x", "bad_y"}}

\* The types of the error replies.
ErrorReplies ==
    {"client_unknown_non_lobby_message", "lobby_unrecognised_message_type",
     "lobby_team_change_format_error", "lobby_ready_change_format_error",
     "ship_unknown_message_type_error", "ship_mov_position_update_bad_x_error",
     "ship_mov_position_update_bad_y_error"}

\* Client c is where Client.Receive, LobbyActivity.HandleMessage or
\* Ship.HandleMessage reads its message.
OutsideMinigame(c) ==
    players[c] # NoPlayer => players[c].Activity.kind \in {"lobby", "ship"}

\* C26: an inbound message that is unrecognised or fails field validation
\* gets a typed error reply to its sender and returns no error to the hub;
\* so do a lobby_join without a string lobby_id and a ship_mov_ message with
\* an unknown suffix.
C26_InvalidMessageGetsErrorReply ==
    halted = NotHalted
    => \A c \in Clients : \A m \in InvalidMessages :
        OutsideMinigame(c)
        => /\ ~ReceiveErr(Now, c, m)
           /\ \A w \in MessageTurn(Now, c, m, NoCode) :
                \E type \in ErrorReplies : Received(w, c, type)

\* The case of C26: a player in the Ship sends a ship_mov_ message with an
\* unknown suffix; Receive returns an error and nothing is sent.
C26_Case ==
    /\ halted = NotHalted
    /\ \E c \in Clients : \E s \in ShipIds :
        /\ players[c] # NoPlayer /\ InSession(s)
        /\ players[c].Activity = ShipAct(s)
        /\ ReceiveErr(Now, c, InMsg("ship_mov_teleport"))
        /\ \A w \in MessageTurn(Now, c, InMsg("ship_mov_teleport"), NoCode) :
            w.sent = EmptyBag

\* C27: when a client that has a player is killed, the synthetic lobby_bye of
\* the player has been processed by the time the client's socket is closed.
C27_LeaveBeforeClose ==
    (conn # NoConn /\ conn.hadPlayer /\ conn.closed) => conn.bye

\* C27, as the code has it: the socket is closed first, and the synthetic
\* lobby_bye of the player is processed after it in the same call.
C27_CloseBeforeLeave ==
    (conn # NoConn /\ conn.hadPlayer /\ conn.bye) => conn.closed

\* The case of C27: the synthetic lobby_bye of a killed client that had a
\* player has been processed and has unlinked the player.
C27_Case ==
    /\ halted = NotHalted
    /\ conn # NoConn /\ conn.hadPlayer /\ conn.bye
    /\ players[conn.client] = NoPlayer

\* The payload of the message has no "type" key.
NoTypeKey == "type" \notin DOMAIN codec.m.payload

\* The values json.Unmarshal produces itself, NaN left out.
JsonValues == {val \in GoValues : val.k \in {"nil", "bool", "float64", "string"} /\ val.v # "NaN"}

\* C28: for every message whose payload has no "type" key,
\* ParseMessage(Encode(m)) succeeds and yields the type and the payload of m;
\* Encode returns an error and no bytes when the payload has a "type" key.
C28_RoundTrip ==
    /\ (codec.stage = "encoded" /\ NoTypeKey) => ~codec.err
    /\ (codec.stage = "parsed" /\ NoTypeKey)
        => codec.ok /\ codec.parsed = codec.m
    /\ (codec.stage = "encoded" /\ ~NoTypeKey) => codec.err /\ codec.data = NoBytes

\* C28, as the code has it: Encode fails, without bytes, exactly when the
\* payload has a "type" key or a value json.Marshal refuses; otherwise
\* ParseMessage succeeds and yields the same type and the same keys, every
\* value json.Unmarshal could have produced comes back as it was, and an
\* integer comes back as the float64 of the same number.
C28_RoundTripUpToJSON ==
    /\ codec.stage = "encoded"
        => /\ codec.err <=> (~NoTypeKey \/ \E key \in DOMAIN codec.m.payload :
                                            codec.m.payload[key].v = "NaN")
           /\ codec.err => codec.data = NoBytes
    /\ codec.stage = "parsed"
        => /\ codec.ok
           /\ codec.parsed.Type = codec.m.Type
           /\ DOMAIN codec.parsed.payload = DOMAIN codec.m.payload
           /\ \A key \in DOMAIN codec.m.payload :
                LET old == codec.m.payload[key]
                    new == codec.parsed.payload[key]
                IN /\ old \in JsonValues => new = old
                   /\ old.k = "int" => new = [k |-> "float64", v |-> old.v]

\* The case of C28: a message with an integer and a string in its payload
\* has been encoded and parsed again.
C28_Case ==
    /\ codec # NoCodec
    /\ codec.stage = "parsed" /\ codec.ok
    /\ \E key \in DOMAIN codec.m.payload : codec.m.payload[key].k = "int"
    /\ \E key \in DOMAIN codec.m.payload : codec.m.payload[key].k = "string"

\* The next scheduled function the main loop runs belongs to a Ship whose
\* session Ship.end has finalized.
StaleEvent ==
    /\ halted = NotHalted
    /\ events # <<>>
    /\ ships[Head(events).ship] # NoShip
    /\ ships[Head(events).ship].ended

\* The outcome of the turn that runs the next scheduled function.
EventTurn == handleEvent([Now EXCEPT !.events = Tail(@)], Head(events))

\* C29: after Ship.end has returned the players to the lobby activity, a
\* later event of that Ship sends no ship_game_end, moves no player and does
\* not trip the fail-fast check of tryEnd.
C29_FinalizedShipEventsInert ==
    StaleEvent
    => /\ Ok(EventTurn)
       /\ \A m \in BagToSet(EventTurn.sent) : m.type # "ship_game_end"
       /\ EventTurn.players = players

\* The case of C29: the end callback of the countdown is still in hub.event
\* when the Ship has been finalized, and members of its lobby remain.
C29_Case ==
    /\ StaleEvent
    /\ Head(events).kind = "shipEnd"
    /\ LobbyPlayers(Now, ships[Head(events).ship].lobby) # {}

\* The turn that ended in w stopped at the sanity check of Ship.tryEnd.
TryEndCheckFailed(w) ==
    w.halted = "panic: found a player outside of the ship, but there are no minigames ongoing"

\* C30: the sanity check of tryEnd never fails in any turn; in particular
\* the leave of a participant of a minigame after the countdown has expired
\* ends the minigame, removes the player and finalizes the session.
C30_TryEndCheckNeverFails ==
    /\ EveryTurn(LAMBDA w : ~TryEndCheckFailed(w))
    /\ \A s \in ShipIds : \A f \in Flags :
        (/\ halted = NotHalted /\ InSession(s)
         /\ HasEnded(ships[s].timer) /\ LastRunning(s, f))
        => \A p \in CtxPlayers(Now, s, f) : \A w \in LeaveTurns(Now, p) :
            /\ Ok(w)
            /\ ~w.ships[s].flags[f].minigame
            /\ w.players[p] = NoPlayer
            /\ w.ships[s].ended

\* The case of C30: the countdown has expired, one minigame is still running
\* and one of its participants leaves.
C30_Case ==
    /\ halted = NotHalted
    /\ \E s \in ShipIds : \E f \in Flags : \E p \in Clients :
        /\ InSession(s) /\ HasEnded(ships[s].timer) /\ LastRunning(s, f)
        /\ p \in CtxPlayers(Now, s, f)
        /\ \E w \in killClient(Now, p) : TryEndCheckFailed(w)

\* Player p of the lobby of ship s is in the Ship or in one of its minigames.
InShipOrMinigame(w, s, p) ==
    /\ w.players[p].Activity.kind \in {"ship", "minigame"}
    /\ w.players[p].Activity.ship = s

\* C31: while the session of a lobby's Ship is in progress every member of
\* the lobby is in the Ship or in one of its minigames: nobody becomes a
\* member through lobby_join during the session.
C31_MembersStayInSession ==
    halted = NotHalted
    => \A s \in ShipIds : InSession(s)
        => \A p \in LobbyPlayers(Now, ships[s].lobby) : InShipOrMinigame(Now, s, p)

\* The case of C31: a session is in progress, and a client without a player
\* sends lobby_join with the code of the session's lobby.
C31_Case ==
    /\ halted = NotHalted
    /\ \E s \in ShipIds : \E c \in Clients :
        /\ InSession(s)
        /\ players[c] = NoPlayer
        /\ lobbies[ships[s].lobby].ID # NoCode
        /\ activities[lobbies[ships[s].lobby].ID] = ships[s].lobby
        /\ LET m == [InMsg("lobby_join") EXCEPT !.id = lobbies[ships[s].lobby].ID]
           IN /\ m \in Messages(Now, c) /\ WithinBounds(Now, c, m)
              /\ \E w \in MessageTurn(Now, c, m, NoCode) :
                    /\ Ok(w)
                    /\ c \in LobbyPlayers(w, ships[s].lobby)
                    /\ w.players[c].Activity = LobbyAct(ships[s].lobby)

\* The timer's goroutine will never receive from quit again: it has returned,
\* or it is in Scheduler.Add with hub.event full, which only the main loop
\* drains.
TimerCannotReceive ==
    \/ ftimer.ticker = "done"
    \/ ftimer.ticker \in {"addFn", "addEnd"} /\ Len(events) >= eventCap

\* C32: a call of FunctionTimer.Stop made from the main loop always returns:
\* the main loop is never at the send on the timer's quit channel while the
\* timer's goroutine has exited or is blocked in Scheduler.Add on a full
\* event queue.
C32_StopAlwaysReturns == loop.pc = "stop" => ~TimerCannotReceive

\* The case of C32: a handler called Stop on a running ticking timer whose
\* goroutine is in Scheduler.Add of a tick, with hub.event full.
C32_Case ==
    /\ loop.pc = "stop"
    /\ ftimer.kind = "ticking" /\ ftimer.running
    /\ ftimer.ticker = "addFn"
    /\ Len(events) = eventCap

\* C33: after Stop has been called on a timer before its end time, HasEnded
\* and WasStopped are true and TimeLeft is zero on the timer value the owner
\* holds, before the original end time has passed.
C33_StoppedTimerReportsEnded ==
    (ftimer.stopped /\ ftimer.running)
    => HasEnded(ftimer) /\ WasStopped(ftimer) /\ TimeLeft(ftimer) = 0

\* The case of C33: a ticking timer has been stopped before its End, the call
\* of Stop has returned and the End has not passed.
C33_Case ==
    /\ ftimer.kind = "ticking"
    /\ ftimer.stopped /\ ftimer.running
    /\ ftimer.ticker = "done"
    /\ loop.pc \in {"run", "select"}

\* Ship s is in endgame with its session in progress, and a tick of its
\* countdown is the next scheduled function the main loop runs.
TickInEndgame(s) ==
    /\ halted = NotHalted
    /\ InSession(s) /\ ships[s].isEndgame
    /\ events # <<>> /\ Head(events) = ShipEvent("shipTick", s)

\* C34: once a Ship has entered endgame no ship_tick is sent to any player,
\* also when a tick of the countdown was already enqueued at the moment
\* endgame was entered and players wait in the Ship for a minigame to end.
C34_NoTickAfterEndgame ==
    \A s \in ShipIds :
        TickInEndgame(s) => \A m \in BagToSet(EventTurn.sent) : m.type # "ship_tick"

\* The case of C34: endgame was entered before the end of the countdown, a
\* player is in the Ship and a tick of the countdown is enqueued.
C34_Case ==
    \E s \in ShipIds :
        /\ TickInEndgame(s)
        /\ StoppedEarly(s)
        /\ ShipPlayers(Now, s) # {}

\* The replies with which Ship.tryActivateFlag rejects a request.
ActivationRejections ==
    {"ship_no_flags_in_endgame", "ship_no_flags_in_reach", "ship_player_locked",
     "ship_flag_already_captured", "ship_flag_in_use", "ship_flag_cooling_down",
     "ship_flag_already_activated"}

\* The outcomes of the turn that handles a ship_flag_activate of client c
\* whose position in the Ship is pos.
ActivateTurn(c, pos) ==
    MessageTurn(Now, c, [InMsg("ship_flag_activate") EXCEPT !.pos = pos], NoCode)

\* The request of player c of ship s at pos is one the protocol accepts: no
\* endgame, c locked to no flag, and the nearest flag in reach is not c's
\* team's, has no minigame, is not cooling down and is not activated.
MayActivate(s, c, pos) ==
    LET f == findNearestFlag(pos)
    IN /\ ~ships[s].isEndgame
       /\ flagForPlayer(ships[s], c) = NoFlag
       /\ f \in Flags
       /\ ships[s].flags[f].owner # TeamOf(Now, c)
       /\ ~ships[s].flags[f].minigame
       /\ HasEnded(ships[s].flags[f].cooldown)
       /\ ~isActivated(ships[s].flags[f])

\* C35: a ship_flag_activate of a player in the Ship activates the nearest
\* flag (or starts its single-player minigame) exactly when the request is
\* one the protocol accepts; every other request is answered with exactly one
\* rejection to the requester and changes nothing else.
C35_ActivateOrRejectOnce ==
    halted = NotHalted =>
    \A s \in ShipIds : \A c \in Clients :
        (InSession(s) /\ players[c] # NoPlayer /\ players[c].Activity = ShipAct(s)) =>
        \A pos \in Positions : \A w \in ActivateTurn(c, pos) :
            IF MayActivate(s, c, pos)
            THEN Ok(w) =>
                    \/ isActivated(w.ships[s].flags[findNearestFlag(pos)])
                    \/ w.ships[s].flags[findNearestFlag(pos)].minigame
            ELSE /\ BagCardinality(w.sent) = 1
                 /\ \E m \in BagToSet(w.sent) : m.to = c /\ m.type \in ActivationRejections
                 /\ NextTurn(w) = Now

\* The case of C35: a player of the Ship is locked to a flag that recruits,
\* while one flag is cooling down and another has a running minigame.
C35_Case ==
    /\ halted = NotHalted
    /\ \E s \in ShipIds : \E c \in Clients :
        /\ InSession(s) /\ ~ships[s].isEndgame
        /\ players[c] # NoPlayer /\ players[c].Activity = ShipAct(s)
        /\ flagForPlayer(ships[s], c) # NoFlag
        /\ \E f \in Flags : ~HasEnded(ships[s].flags[f].cooldown)
        /\ \E f \in Flags : ships[s].flags[f].minigame

\* The turn from the current state to w starts the session of Ship object s.
StartsSession(w, s) == ships[s] = NoShip /\ Ok(w) /\ w.ships[s] # NoShip

\* The turn that handles message m of client c and ends in w starts a session
\* only on a lobby_ready_change of a lobby with equal non-empty teams whose
\* members are all in the ready set once c is added to it.
StartsOnlyWhenAllReady(w, c, m) ==
    \A s \in ShipIds :
        StartsSession(w, s) =>
            LET L == w.ships[s].lobby
            IN /\ m.type = "lobby_ready_change"
               /\ Cardinality(lobbies[L].Teams[0]) = Cardinality(lobbies[L].Teams[1])
               /\ lobbies[L].Teams[0] # {}
               /\ c \in LobbyPlayers(Now, L)
               /\ LobbyPlayers(Now, L) \subseteq readyPlayers[L] \cup {c}

C37_ReadyImpliesTeamsReady ==
    \A L \in Lobbies : readyPlayers[L] # {} => IsReady(Now, L)

\* The case of C37: a player of a lobby is ready and is the only member that
\* is left, the other team being empty.
C37_Case ==
    /\ halted = NotHalted
    /\ \E L \in Lobbies : \E c \in readyPlayers[L] :
        /\ players[c] # NoPlayer /\ players[c].Activity = LobbyAct(L)
        /\ LobbyPlayers(Now, L) = {c}

\* Client p is sent the ship_minigame_finished of flag f in the turn that
\* ends in w.
ToldFinished(w, p, f) ==
    \E m \in BagToSet(w.sent) :
        m.to = p /\ m.type = "ship_minigame_finished" /\ m.flag = f

\* C38: when the minigame of a flag is played to its end, every client of the
\* lobby is sent a ship_minigame_finished for that flag in that turn: the
\* participants of the minigame and the players inside other minigames too.
C38_AllClientsToldFinished ==
    halted = NotHalted =>
    \A s \in ShipIds : \A f \in Flags :
        (InSession(s) /\ ships[s].flags[f].minigame /\ ships[s].played < MaxPlayed) =>
            \A r \in PlayedResults(Now, s, f) : \A w \in End(Now, s, f, r) :
                Ok(w) => \A p \in LobbyPlayers(Now, ships[s].lobby) : ToldFinished(w, p, f)

\* The case of C38: the minigames of two flags of a Ship are running, each
\* with its participant inside, and one of them can be played to its end.
C38_Case ==
    /\ halted = NotHalted
    /\ \E s \in ShipIds : \E f, g \in Flags :
        /\ f # g /\ InSession(s) /\ ships[s].played < MaxPlayed
        /\ ships[s].flags[f].minigame /\ CtxPlayers(Now, s, f) # {}
        /\ ships[s].flags[g].minigame /\ CtxPlayers(Now, s, g) # {}

\* The store of the flag of a single-player threshold game.
StoreOf(game) ==
    CASE game = "cps" -> minigames.cps
      [] game = "moles" -> minigames.moles
      [] game = "race" -> minigames.bestTime

\* Score a is strictly better than b: more clicks or hits, or less time.
Better(game, a, b) == IF game = "race" THEN a < b ELSE a > b

\* The last single-player play was a win.
LastWon == minigames.last.game # "none" /\ minigames.result.winningTeam # NoOwner

\* C39: every play of a single-player threshold game is a win if and only if
\* it has a score strictly better than the flag's stored threshold; a win
\* makes that score the threshold, and a loss or a disconnection leaves the
\* threshold as it was.
C39_WinIffBeatsThreshold ==
    LET play == minigames.last
    IN play.game # "none" =>
        /\ LastWon <=> (play.scored /\ Better(play.game, play.score, play.before))
        /\ StoreOf(play.game) = IF LastWon THEN play.score ELSE play.before
        /\ minigames.result.disconnected # 0 => ~LastWon

\* The case of C39: a play wins against a threshold that an earlier winning
\* play at the same flag had set.
C39_Case ==
    /\ LastWon
    /\ minigames.last.before # (IF minigames.last.game = "race" THEN timeout ELSE 0)

\* The multiplayer race that was played last ended at its finish or at its
\* timeout with equal point totals of the two teams.
RaceEndedLevel ==
    /\ minigames # NoGames
    /\ minigames.running = "none"
    /\ Cardinality(minigames.players) > 1
    /\ minigames.result.disconnected = 0
    /\ race_calculatePoints(minigames.race, minigames.players)[0]
        = race_calculatePoints(minigames.race, minigames.players)[1]

\* C40: a multiplayer race that ends with equal point totals of the two teams
\* is a draw: the result names no winning team (so that Ship.endMinigame
\* leaves the flag's owner as it is).
C40_LevelRaceIsDraw == RaceEndedLevel => minigames.result.winningTeam = NoOwner

\* The case of C40: the race ended at its timeout before anybody finished.
C40_Case == RaceEndedLevel /\ minigames.race.finished = {}

====
